---- MODULE Spec2Model ----
(***************************************************************************)
(* pyilcd: typed views over ILCD XML documents.                            *)
(*                                                                         *)
(* The model covers the element-class lookup of core.py (the shared table  *)
(* COMMON_LOOK_UP, the six per-kind lookup classes), the class vocabulary  *)
(* of common.py and the six *_dataset.py modules (classes, base classes,   *)
(* declared accessors), the parse_file_* operations and the navigation of  *)
(* a parsed tree through child accessors.                                  *)
(*                                                                         *)
(* lxml and lxmlh are libraries outside the repository.  What the model    *)
(* takes from them is the documented protocol of                           *)
(* etree.CustomElementClassLookup, which the six lookup classes subclass:  *)
(* lookup() is called with the local name of an element, a class it        *)
(* returns backs the element, and None hands the element to the fallback   *)
(* lookup, whose class is the plain etree._Element.  Whether the engine    *)
(* accepts a well-formed document (it is given the schema path) is not     *)
(* decided by the repository and is left open: ParseFile may fail on any   *)
(* document.                                                               *)
(***************************************************************************)
EXTENDS Integers, Sequences, FiniteSets, TLC

\* Python's None, returned by a lookup that finds no class.
None == "None"

\* The base class of every wrapper class (etree.ElementBase).
ElementBase == "etree.ElementBase"

\* The class lxml's fallback lookup gives an element no custom class was found for.
GenericElement == "etree._Element"

\* core.py COMMON_LOOK_UP: tag name -> class shared by the six kinds.
\* A class is named "<module>.<Class>"; the trailing comment gives the alias core.py imports it under.
COMMON_LOOK_UP ==
       "allocation" :> "process_dataset.Allocation"
    @@ "allocations" :> "process_dataset.Allocations"
    @@ "category" :> "common.Category"
    @@ "class" :> "common.Class"
    @@ "classification" :> "common.Classification"
    @@ "completeness" :> "process_dataset.Completeness"
    @@ "completenessElementaryFlows" :> "process_dataset.CompletenessElementaryFlows"
    @@ "complementingProcesses" :> "process_dataset.ComplementingProcesses"
    @@ "compliance" :> "common.Compliance"
    @@ "complianceDeclarations" :> "common.ComplianceDeclarations"
    @@ "commissionerAndGoal" :> "common.CommissionerAndGoal"
    @@ "contactDataSet" :> "contact_dataset.ContactDataSet"
    @@ "contactInformation" :> "contact_dataset.ContactInformation"
    @@ "dataGenerator" :> "process_dataset.DataGenerator"
    @@ "dataQualityIndicator" :> "common.DataQualityIndicator"
    @@ "dataQualityIndicators" :> "common.DataQualityIndicators"
    @@ "elementaryFlowCategorization" :> "common.FlowCategorization"
    @@ "flowDataSet" :> "flow_dataset.FlowDataSet"
    @@ "flowInformation" :> "flow_dataset.FlowInformation"
    @@ "flowProperties" :> "flow_dataset.FlowProperties"
    @@ "flowPropertiesInformation" :> "flow_property_dataset.FlowPropertiesInformation"
    @@ "flowProperty" :> "flow_dataset.FlowProperty"
    @@ "flowPropertyDataSet" :> "flow_property_dataset.FlowPropertyDataSet"
    @@ "method" :> "common.Method"
    @@ "scope" :> "common.Scope"
    @@ "exchange" :> "process_dataset.Exchange"
    @@ "exchanges" :> "process_dataset.Exchanges"
    @@ "LCIAResult" :> "process_dataset.LCIAResult"
    @@ "LCIAResults" :> "process_dataset.LCIAResults"
    @@ "LCIMethod" :> "flow_dataset.LCIMethod"
    @@ "LCIMethodAndAllocation" :> "process_dataset.LCIMethodAndAllocation"
    @@ "locationOfOperationSupplyOrProduction" :> "process_dataset.LocationOfOperationSupplyOrProduction"
    @@ "mathematicalRelations" :> "process_dataset.MathematicalRelations"
    @@ "processDataSet" :> "process_dataset.ProcessDataSet"
    @@ "processInformation" :> "process_dataset.ProcessInformation"
    @@ "referenceToContact" :> "common.GlobalReference"
    @@ "referenceToCommissioner" :> "common.GlobalReference"
    @@ "referenceToComplementingProcess" :> "common.GlobalReference"
    @@ "referenceToCompleteReviewReport" :> "common.GlobalReference"
    @@ "referenceToComplianceSystem" :> "common.GlobalReference"
    @@ "referenceToConvertedOriginalDataSetFrom" :> "common.GlobalReference"
    @@ "referenceToDataHandlingPrinciples" :> "common.GlobalReference"
    @@ "referenceToDataSetFormat" :> "common.GlobalReference"
    @@ "referenceToDataSetUseApproval" :> "common.GlobalReference"
    @@ "referenceToDataSource" :> "common.GlobalReference"
    @@ "referenceToDigitalFile" :> "source_dataset.ReferenceToDigitalFile"
    @@ "referenceToEntitiesWithExclusiveAccess" :> "common.GlobalReference"
    @@ "referenceToExternalDocumentation" :> "common.GlobalReference"
    @@ "referenceToFlowDataSet" :> "common.GlobalReference"
    @@ "referenceToFlowPropertyDataSet" :> "common.GlobalReference"
    @@ "referenceToIncludedProcesses" :> "common.GlobalReference"
    @@ "referenceToLCAMethodDetails" :> "common.GlobalReference"
    @@ "referenceToLCIAMethodDataSet" :> "common.GlobalReference"
    @@ "referenceToLogo" :> "common.GlobalReference"
    @@ "referenceToNameOfReviewerAndInstitution" :> "common.GlobalReference"
    @@ "referenceToOwnershipOfDataSet" :> "common.GlobalReference"
    @@ "referenceToPersonOrEntityEnteringTheData" :> "common.GlobalReference"
    @@ "referenceToPersonOrEntityGeneratingTheDataSet" :> "common.GlobalReference"
    @@ "referenceToPrecedingDataSetVersion" :> "common.GlobalReference"
    @@ "referenceToReferenceUnitGroup" :> "common.GlobalReference"
    @@ "referenceToRegistrationAuthority" :> "common.GlobalReference"
    @@ "referenceToSupportedImpactAssessmentMethods" :> "common.GlobalReference"
    @@ "referenceToTechnicalSpecification" :> "common.GlobalReference"
    @@ "referenceToTechnologyFlowDiagrammOrPicture" :> "common.GlobalReference"
    @@ "referenceToTechnologyPictogramme" :> "common.GlobalReference"
    @@ "referenceToUnchangedRepublication" :> "common.GlobalReference"
    @@ "referencesToDataSource" :> "process_dataset.ReferencesToDataSource"
    @@ "review" :> "process_dataset.Review"
    @@ "sourceDataSet" :> "source_dataset.SourceDataSet"
    @@ "sourceInformation" :> "source_dataset.SourceInformation"
    @@ "subLocationOfOperationSupplyOrProduction" :> "process_dataset.SubLocationOfOperationSupplyOrProduction"
    @@ "time" :> "process_dataset.Time"
    @@ "unit" :> "unit_group_dataset.Unit"
    @@ "units" :> "unit_group_dataset.Units"
    @@ "unitGroupDataSet" :> "unit_group_dataset.UnitGroupDataSet"
    @@ "unitGroupInformation" :> "unit_group_dataset.UnitGroupInformation"
    @@ "validation" :> "process_dataset.Validation"
    @@ "variableParameter" :> "process_dataset.VariableParameter"

\* core.py ProcessDatasetLookup.lookup: the lookupMap local of the Process kind.
ProcessLookupMap ==
       "administrativeInformation" :> "process_dataset.AdministrativeInformation"  \* ProcessAdministrativeInformation
    @@ "dataEntryBy" :> "process_dataset.DataEntryBy"  \* ProcessDataEntryBy
    @@ "dataSetInformation" :> "process_dataset.DataSetInformation"  \* ProcessDataSetInformation
    @@ "dataSourcesTreatmentAndRepresentativeness" :> "process_dataset.DataSourcesTreatmentAndRepresentativeness"  \* PDSTAR
    @@ "classificationInformation" :> "common.ClassificationInformation"
    @@ "compliance" :> "process_dataset.Compliance"  \* ProcessCompliance
    @@ "complianceDeclarations" :> "process_dataset.ComplianceDeclarations"  \* ProcessComplianceDeclarations
    @@ "geography" :> "process_dataset.Geography"  \* ProcessGeography
    @@ "modellingAndValidation" :> "process_dataset.ModellingAndValidation"  \* ProcessModellingAndValidation
    @@ "name" :> "process_dataset.Name"  \* ProcessName
    @@ "publicationAndOwnership" :> "process_dataset.PublicationAndOwnership"  \* ProcessPublicationAndOwnership
    @@ "quantitativeReference" :> "process_dataset.QuantitativeReference"  \* ProcessQuantitativeReference
    @@ "technology" :> "process_dataset.Technology"  \* ProcessTechnology

\* core.py FlowDatasetLookup.lookup: the lookupMap local of the Flow kind.
FlowLookupMap ==
       "administrativeInformation" :> "flow_dataset.AdministrativeInformation"  \* FlowAdministrativeInformation
    @@ "classificationInformation" :> "common.FlowCategoryInformation"
    @@ "dataEntryBy" :> "flow_dataset.DataEntryBy"  \* FlowDataEntryBy
    @@ "dataSetInformation" :> "flow_dataset.DataSetInformation"  \* FlowDataSetInformation
    @@ "geography" :> "flow_dataset.Geography"  \* FlowGeography
    @@ "modellingAndValidation" :> "flow_dataset.ModellingAndValidation"  \* FlowModellingAndValidation
    @@ "name" :> "flow_dataset.Name"  \* FlowName
    @@ "publicationAndOwnership" :> "flow_dataset.PublicationAndOwnership"  \* FlowPublicationAndOwnership
    @@ "quantitativeReference" :> "flow_dataset.QuantitativeReference"  \* FlowQuantitativeReference
    @@ "technology" :> "flow_dataset.Technology"  \* FlowTechnology

\* core.py FlowPropertyDatasetLookup.lookup: the lookupMap local of the FlowProperty kind.
FlowPropertyLookupMap ==
       "administrativeInformation" :> "flow_property_dataset.AdministrativeInformation"  \* FlowPropertyAdministrativeInformation
    @@ "classificationInformation" :> "common.ClassificationInformation"
    @@ "dataEntryBy" :> "flow_property_dataset.DataEntryBy"  \* FlowPropertyDataEntryBy
    @@ "dataSetInformation" :> "flow_property_dataset.DataSetInformation"  \* FlowPropertyDataSetInformation
    @@ "dataSourcesTreatmentAndRepresentativeness" :> "flow_property_dataset.DataSourcesTreatmentAndRepresentativeness"  \* FPDSTAR
    @@ "modellingAndValidation" :> "flow_property_dataset.ModellingAndValidation"  \* FlowPropertyModellingAndValidation
    @@ "publicationAndOwnership" :> "flow_property_dataset.PublicationAndOwnership"  \* FlowPropertyPublicationAndOwnership
    @@ "quantitativeReference" :> "flow_property_dataset.QuantitativeReference"  \* FlowPropertyQuantitativeReference

\* core.py UnitGroupDatasetLookup.lookup: the lookupMap local of the UnitGroup kind.
UnitGroupLookupMap ==
       "administrativeInformation" :> "unit_group_dataset.AdministrativeInformation"  \* UnitGroupAdministrativeInformation
    @@ "classificationInformation" :> "common.ClassificationInformation"
    @@ "dataEntryBy" :> "unit_group_dataset.DataEntryBy"  \* UnitGroupDataEntryBy
    @@ "dataSetInformation" :> "unit_group_dataset.DataSetInformation"  \* UnitGroupDataSetInformation
    @@ "modellingAndValidation" :> "unit_group_dataset.ModellingAndValidation"  \* UnitGroupModellingAndValidation
    @@ "publicationAndOwnership" :> "unit_group_dataset.PublicationAndOwnership"  \* UnitGroupPublicationAndOwnership
    @@ "quantitativeReference" :> "unit_group_dataset.QuantitativeReference"  \* UnitGroupQuantitativeReference

\* core.py ContactDatasetLookup.lookup: the lookupMap local of the Contact kind.
ContactLookupMap ==
       "administrativeInformation" :> "contact_dataset.AdministrativeInformation"  \* ContactAdministrativeInformation
    @@ "dataEntryBy" :> "contact_dataset.DataEntryBy"  \* ContactDataEntryBy
    @@ "dataSetInformation" :> "contact_dataset.DataSetInformation"  \* ContactDataSetInformation
    @@ "classificationInformation" :> "common.ClassificationInformation"
    @@ "publicationAndOwnership" :> "contact_dataset.PublicationAndOwnership"  \* ContactPublicationAndOwnership

\* core.py SourceDatasetLookup.lookup: the lookupMap local of the Source kind.
SourceLookupMap ==
       "administrativeInformation" :> "source_dataset.AdministrativeInformation"  \* SourceAdministrativeInformation
    @@ "dataEntryBy" :> "source_dataset.DataEntryBy"  \* SourceDataEntryBy
    @@ "dataSetInformation" :> "source_dataset.DataSetInformation"  \* SourceDataSetInformation
    @@ "classificationInformation" :> "common.ClassificationInformation"
    @@ "publicationAndOwnership" :> "source_dataset.PublicationAndOwnership"  \* SourcePublicationAndOwnership

\* common.py: the classes the module defines, each with its base classes in declaration order.
CommonClasses ==
    { [id |-> "common.GlobalReference", bases |-> <<"etree.ElementBase">>],
      [id |-> "common.ClassificationInformation", bases |-> <<"etree.ElementBase">>],
      [id |-> "common.Classification", bases |-> <<"etree.ElementBase">>],
      [id |-> "common.Class", bases |-> <<"etree.ElementBase">>],
      [id |-> "common.Scope", bases |-> <<"etree.ElementBase">>],
      [id |-> "common.Method", bases |-> <<"etree.ElementBase">>],
      [id |-> "common.DataQualityIndicators", bases |-> <<"etree.ElementBase">>],
      [id |-> "common.DataQualityIndicator", bases |-> <<"etree.ElementBase">>],
      [id |-> "common.ValidationGroup1", bases |-> <<"etree.ElementBase">>],
      [id |-> "common.ValidationGroup3", bases |-> <<"etree.ElementBase">>],
      [id |-> "common.ComplianceGroup", bases |-> <<"etree.ElementBase">>],
      [id |-> "common.CommissionerAndGoal", bases |-> <<"etree.ElementBase">>],
      [id |-> "common.DataEntryByGroup1", bases |-> <<"etree.ElementBase">>],
      [id |-> "common.DataEntryByGroup2", bases |-> <<"etree.ElementBase">>],
      [id |-> "common.PublicationAndOwnershipGroup1", bases |-> <<"etree.ElementBase">>],
      [id |-> "common.PublicationAndOwnershipGroup2", bases |-> <<"etree.ElementBase">>],
      [id |-> "common.PublicationAndOwnershipGroup3", bases |-> <<"etree.ElementBase">>],
      [id |-> "common.FlowCategoryInformation", bases |-> <<"etree.ElementBase">>],
      [id |-> "common.FlowCategorization", bases |-> <<"etree.ElementBase">>],
      [id |-> "common.Category", bases |-> <<"etree.ElementBase">>],
      [id |-> "common.ComplianceDeclarations", bases |-> <<"etree.ElementBase">>],
      [id |-> "common.Compliance", bases |-> <<"common.ComplianceGroup">>] }

\* common.py: the accessors each class declares itself. factory is the helper (helpers.py) or
\* lxmlh function that builds it, tag <<prefix, local>> stands for "prefix:local" ("local" when
\* the prefix is empty), type is the factory's type argument or the class of the return annotation.
CommonAccessors ==
    { [cls |-> "common.GlobalReference", attr |-> "subReference", factory |-> "create_attribute_list_process_dataset", tag |-> <<"", "subReference">>, type |-> "str", validator |-> "None"],
      [cls |-> "common.GlobalReference", attr |-> "shortDescription", factory |-> "create_attribute_list_process_dataset", tag |-> <<"", "shortDescription">>, type |-> "str", validator |-> "None"],
      [cls |-> "common.GlobalReference", attr |-> "type", factory |-> "create_attribute_process_dataset", tag |-> <<"", "type">>, type |-> "str", validator |-> "None"],
      [cls |-> "common.GlobalReference", attr |-> "refObjectId", factory |-> "create_attribute_process_dataset", tag |-> <<"", "refObjectId">>, type |-> "str", validator |-> "None"],
      [cls |-> "common.GlobalReference", attr |-> "version", factory |-> "create_attribute_process_dataset", tag |-> <<"", "version">>, type |-> "str", validator |-> "None"],
      [cls |-> "common.GlobalReference", attr |-> "uri", factory |-> "create_attribute_process_dataset", tag |-> <<"", "uri">>, type |-> "str", validator |-> "None"],
      [cls |-> "common.ClassificationInformation", attr |-> "classifications", factory |-> "get_element_list", tag |-> <<"common", "classification">>, type |-> "common.Classification", validator |-> "None"],
      [cls |-> "common.Classification", attr |-> "name", factory |-> "create_attribute_process_dataset", tag |-> <<"", "name">>, type |-> "str", validator |-> "None"],
      [cls |-> "common.Classification", attr |-> "classes", factory |-> "create_attribute_process_dataset", tag |-> <<"", "classes">>, type |-> "str", validator |-> "None"],
      [cls |-> "common.Classification", attr |-> "classesList", factory |-> "get_element_list", tag |-> <<"common", "class">>, type |-> "common.Class", validator |-> "None"],
      [cls |-> "common.Class", attr |-> "level", factory |-> "create_attribute_process_dataset", tag |-> <<"", "level">>, type |-> "int", validator |-> "None"],
      [cls |-> "common.Class", attr |-> "classId", factory |-> "create_attribute_process_dataset", tag |-> <<"", "classId">>, type |-> "str", validator |-> "None"],
      [cls |-> "common.Scope", attr |-> "name", factory |-> "create_attribute_process_dataset", tag |-> <<"", "name">>, type |-> "str", validator |-> "None"],
      [cls |-> "common.Scope", attr |-> "method", factory |-> "get_element_list", tag |-> <<"common", "method">>, type |-> "common.Method", validator |-> "None"],
      [cls |-> "common.Method", attr |-> "name", factory |-> "create_attribute_process_dataset", tag |-> <<"", "name">>, type |-> "str", validator |-> "None"],
      [cls |-> "common.DataQualityIndicators", attr |-> "dataQualityIndicators", factory |-> "get_element_list", tag |-> <<"common", "dataQualityIndicator">>, type |-> "common.DataQualityIndicator", validator |-> "None"],
      [cls |-> "common.DataQualityIndicator", attr |-> "name", factory |-> "create_attribute_process_dataset", tag |-> <<"", "name">>, type |-> "str", validator |-> "None"],
      [cls |-> "common.DataQualityIndicator", attr |-> "value", factory |-> "create_attribute_process_dataset", tag |-> <<"", "value">>, type |-> "str", validator |-> "None"],
      [cls |-> "common.ValidationGroup1", attr |-> "reviewDetails", factory |-> "create_attribute_list_process_dataset", tag |-> <<"common", "reviewDetails">>, type |-> "str", validator |-> "None"],
      [cls |-> "common.ValidationGroup1", attr |-> "scope", factory |-> "get_element", tag |-> <<"common", "scope">>, type |-> "common.Scope", validator |-> "None"],
      [cls |-> "common.ValidationGroup1", attr |-> "dataQualityIndicators", factory |-> "get_element", tag |-> <<"common", "dataQualityIndicators">>, type |-> "common.DataQualityIndicators", validator |-> "None"],
      [cls |-> "common.ValidationGroup3", attr |-> "otherReviewDetails", factory |-> "create_attribute_list_process_dataset", tag |-> <<"common", "otherReviewDetails">>, type |-> "str", validator |-> "None"],
      [cls |-> "common.ValidationGroup3", attr |-> "referenceToNameOfReviewerAndInstitution", factory |-> "get_element", tag |-> <<"common", "referenceToNameOfReviewerAndInstitution">>, type |-> "common.GlobalReference", validator |-> "None"],
      [cls |-> "common.ValidationGroup3", attr |-> "referenceToCompleteReviewReport", factory |-> "get_element", tag |-> <<"common", "referenceToCompleteReviewReport">>, type |-> "common.GlobalReference", validator |-> "None"],
      [cls |-> "common.ComplianceGroup", attr |-> "approvalOfOverallCompliance", factory |-> "create_element_text_process_dataset", tag |-> <<"", "approvalOfOverallCompliance">>, type |-> "str", validator |-> "None"],
      [cls |-> "common.ComplianceGroup", attr |-> "referenceToComplianceSystem", factory |-> "get_element", tag |-> <<"common", "referenceToComplianceSystem">>, type |-> "common.GlobalReference", validator |-> "None"],
      [cls |-> "common.CommissionerAndGoal", attr |-> "project", factory |-> "create_attribute_list_process_dataset", tag |-> <<"common", "project">>, type |-> "str", validator |-> "None"],
      [cls |-> "common.CommissionerAndGoal", attr |-> "intendedApplications", factory |-> "create_attribute_list_process_dataset", tag |-> <<"common", "intendedApplications">>, type |-> "str", validator |-> "None"],
      [cls |-> "common.CommissionerAndGoal", attr |-> "referenceToCommissioner", factory |-> "get_element_list", tag |-> <<"common", "referenceToCommissioner">>, type |-> "common.GlobalReference", validator |-> "None"],
      [cls |-> "common.DataEntryByGroup1", attr |-> "timeStamp", factory |-> "create_element_text_process_dataset", tag |-> <<"common", "timeStamp">>, type |-> "datetime", validator |-> "None"],
      [cls |-> "common.DataEntryByGroup1", attr |-> "referenceToDataSetFormat", factory |-> "get_element_list", tag |-> <<"common", "referenceToDataSetFormat">>, type |-> "common.GlobalReference", validator |-> "None"],
      [cls |-> "common.DataEntryByGroup2", attr |-> "referenceToPersonOrEntityEnteringTheData", factory |-> "get_element", tag |-> <<"common", "referenceToPersonOrEntityEnteringTheData">>, type |-> "common.GlobalReference", validator |-> "None"],
      [cls |-> "common.PublicationAndOwnershipGroup1", attr |-> "dataSetVersion", factory |-> "create_element_text_process_dataset", tag |-> <<"common", "dataSetVersion">>, type |-> "str", validator |-> "None"],
      [cls |-> "common.PublicationAndOwnershipGroup1", attr |-> "permanentDataSetURI", factory |-> "create_element_text_process_dataset", tag |-> <<"common", "permanentDataSetURI">>, type |-> "str", validator |-> "None"],
      [cls |-> "common.PublicationAndOwnershipGroup1", attr |-> "referenceToPrecedingDataSetVersion", factory |-> "get_element_list", tag |-> <<"common", "referenceToPrecedingDataSetVersion">>, type |-> "common.GlobalReference", validator |-> "None"],
      [cls |-> "common.PublicationAndOwnershipGroup2", attr |-> "workflowAndPublicationStatus", factory |-> "create_element_text_process_dataset", tag |-> <<"common", "workflowAndPublicationStatus">>, type |-> "str", validator |-> "None"],
      [cls |-> "common.PublicationAndOwnershipGroup2", attr |-> "referenceToUnchangedRepublication", factory |-> "get_element", tag |-> <<"common", "referenceToUnchangedRepublication">>, type |-> "common.GlobalReference", validator |-> "None"],
      [cls |-> "common.PublicationAndOwnershipGroup3", attr |-> "copyright", factory |-> "create_element_text_process_dataset", tag |-> <<"common", "copyright">>, type |-> "bool", validator |-> "None"],
      [cls |-> "common.PublicationAndOwnershipGroup3", attr |-> "licenseType", factory |-> "create_element_text_process_dataset", tag |-> <<"common", "licenseType">>, type |-> "str", validator |-> "None"],
      [cls |-> "common.PublicationAndOwnershipGroup3", attr |-> "accessRestrictions", factory |-> "create_attribute_list_process_dataset", tag |-> <<"common", "accessRestrictions">>, type |-> "str", validator |-> "None"],
      [cls |-> "common.PublicationAndOwnershipGroup3", attr |-> "referenceToEntitiesWithExclusiveAccess", factory |-> "get_element_list", tag |-> <<"common", "referenceToEntitiesWithExclusiveAccess">>, type |-> "common.GlobalReference", validator |-> "None"],
      [cls |-> "common.FlowCategoryInformation", attr |-> "elementaryFlowCategorization", factory |-> "get_element_list", tag |-> <<"common", "elementaryFlowCategorization">>, type |-> "common.FlowCategorization", validator |-> "None"],
      [cls |-> "common.FlowCategoryInformation", attr |-> "classifications", factory |-> "get_element_list", tag |-> <<"common", "classification">>, type |-> "common.Classification", validator |-> "None"],
      [cls |-> "common.FlowCategorization", attr |-> "name", factory |-> "create_attribute_process_dataset", tag |-> <<"", "name">>, type |-> "str", validator |-> "None"],
      [cls |-> "common.FlowCategorization", attr |-> "categories", factory |-> "create_attribute_process_dataset", tag |-> <<"", "categories">>, type |-> "str", validator |-> "None"],
      [cls |-> "common.FlowCategorization", attr |-> "categoryList", factory |-> "get_element_list", tag |-> <<"common", "category">>, type |-> "common.Category", validator |-> "None"],
      [cls |-> "common.Category", attr |-> "level", factory |-> "create_attribute_process_dataset", tag |-> <<"", "level">>, type |-> "str", validator |-> "None"],
      [cls |-> "common.Category", attr |-> "catId", factory |-> "create_attribute_process_dataset", tag |-> <<"", "catId">>, type |-> "str", validator |-> "None"],
      [cls |-> "common.ComplianceDeclarations", attr |-> "compliances", factory |-> "get_element_list", tag |-> <<"", "compliance">>, type |-> "common.Compliance", validator |-> "None"] }

\* process_dataset.py: the classes the module defines, each with its base classes in declaration order.
ProcessClasses ==
    { [id |-> "process_dataset.ProcessDataSet", bases |-> <<"etree.ElementBase">>],
      [id |-> "process_dataset.ProcessInformation", bases |-> <<"etree.ElementBase">>],
      [id |-> "process_dataset.ModellingAndValidation", bases |-> <<"etree.ElementBase">>],
      [id |-> "process_dataset.AdministrativeInformation", bases |-> <<"etree.ElementBase">>],
      [id |-> "process_dataset.Exchanges", bases |-> <<"etree.ElementBase">>],
      [id |-> "process_dataset.LCIAResults", bases |-> <<"etree.ElementBase">>],
      [id |-> "process_dataset.DataSetInformation", bases |-> <<"etree.ElementBase">>],
      [id |-> "process_dataset.QuantitativeReference", bases |-> <<"etree.ElementBase">>],
      [id |-> "process_dataset.Time", bases |-> <<"etree.ElementBase">>],
      [id |-> "process_dataset.Geography", bases |-> <<"etree.ElementBase">>],
      [id |-> "process_dataset.Technology", bases |-> <<"etree.ElementBase">>],
      [id |-> "process_dataset.MathematicalRelations", bases |-> <<"etree.ElementBase">>],
      [id |-> "process_dataset.LCIMethodAndAllocation", bases |-> <<"etree.ElementBase">>],
      [id |-> "process_dataset.DataSourcesTreatmentAndRepresentativeness", bases |-> <<"etree.ElementBase">>],
      [id |-> "process_dataset.Completeness", bases |-> <<"etree.ElementBase">>],
      [id |-> "process_dataset.Validation", bases |-> <<"etree.ElementBase">>],
      [id |-> "process_dataset.ComplianceDeclarations", bases |-> <<"etree.ElementBase">>],
      [id |-> "process_dataset.DataGenerator", bases |-> <<"etree.ElementBase">>],
      [id |-> "process_dataset.DataEntryBy", bases |-> <<"common.DataEntryByGroup1", "common.DataEntryByGroup2">>],
      [id |-> "process_dataset.PublicationAndOwnership", bases |-> <<"common.PublicationAndOwnershipGroup1", "common.PublicationAndOwnershipGroup2", "common.PublicationAndOwnershipGroup3">>],
      [id |-> "process_dataset.Exchange", bases |-> <<"etree.ElementBase">>],
      [id |-> "process_dataset.LCIAResult", bases |-> <<"etree.ElementBase">>],
      [id |-> "process_dataset.Name", bases |-> <<"etree.ElementBase">>],
      [id |-> "process_dataset.ComplementingProcesses", bases |-> <<"etree.ElementBase">>],
      [id |-> "process_dataset.LocationOfOperationSupplyOrProduction", bases |-> <<"etree.ElementBase">>],
      [id |-> "process_dataset.SubLocationOfOperationSupplyOrProduction", bases |-> <<"etree.ElementBase">>],
      [id |-> "process_dataset.VariableParameter", bases |-> <<"etree.ElementBase">>],
      [id |-> "process_dataset.CompletenessElementaryFlows", bases |-> <<"etree.ElementBase">>],
      [id |-> "process_dataset.Review", bases |-> <<"common.ValidationGroup1", "common.ValidationGroup3">>],
      [id |-> "process_dataset.Compliance", bases |-> <<"common.ComplianceGroup">>],
      [id |-> "process_dataset.Allocations", bases |-> <<"etree.ElementBase">>],
      [id |-> "process_dataset.Allocation", bases |-> <<"etree.ElementBase">>],
      [id |-> "process_dataset.ReferencesToDataSource", bases |-> <<"etree.ElementBase">>] }

\* process_dataset.py: the accessors each class declares itself. factory is the helper (helpers.py) or
\* lxmlh function that builds it, tag <<prefix, local>> stands for "prefix:local" ("local" when
\* the prefix is empty), type is the factory's type argument or the class of the return annotation.
ProcessAccessors ==
    { [cls |-> "process_dataset.ProcessDataSet", attr |-> "version", factory |-> "create_attribute_process_dataset", tag |-> <<"", "version">>, type |-> "str", validator |-> "None"],
      [cls |-> "process_dataset.ProcessDataSet", attr |-> "locations", factory |-> "create_attribute_process_dataset", tag |-> <<"", "locations">>, type |-> "str", validator |-> "None"],
      [cls |-> "process_dataset.ProcessDataSet", attr |-> "metaDataOnly", factory |-> "create_attribute_process_dataset", tag |-> <<"", "metaDataOnly">>, type |-> "bool", validator |-> "None"],
      [cls |-> "process_dataset.ProcessDataSet", attr |-> "processInformation", factory |-> "get_element", tag |-> <<"", "processInformation">>, type |-> "process_dataset.ProcessInformation", validator |-> "None"],
      [cls |-> "process_dataset.ProcessDataSet", attr |-> "modellingAndValidation", factory |-> "get_element", tag |-> <<"", "modellingAndValidation">>, type |-> "process_dataset.ModellingAndValidation", validator |-> "None"],
      [cls |-> "process_dataset.ProcessDataSet", attr |-> "administrativeInformation", factory |-> "get_element", tag |-> <<"", "administrativeInformation">>, type |-> "process_dataset.AdministrativeInformation", validator |-> "None"],
      [cls |-> "process_dataset.ProcessDataSet", attr |-> "exchanges", factory |-> "get_element", tag |-> <<"", "exchanges">>, type |-> "process_dataset.Exchanges", validator |-> "None"],
      [cls |-> "process_dataset.ProcessDataSet", attr |-> "lciaResults", factory |-> "get_element", tag |-> <<"", "LCIAResults">>, type |-> "process_dataset.LCIAResults", validator |-> "None"],
      [cls |-> "process_dataset.ProcessInformation", attr |-> "dataSetInformation", factory |-> "get_element", tag |-> <<"", "dataSetInformation">>, type |-> "process_dataset.DataSetInformation", validator |-> "None"],
      [cls |-> "process_dataset.ProcessInformation", attr |-> "quantitativeReference", factory |-> "get_element", tag |-> <<"", "quantitativeReference">>, type |-> "process_dataset.QuantitativeReference", validator |-> "None"],
      [cls |-> "process_dataset.ProcessInformation", attr |-> "time", factory |-> "get_element", tag |-> <<"", "time">>, type |-> "process_dataset.Time", validator |-> "None"],
      [cls |-> "process_dataset.ProcessInformation", attr |-> "geography", factory |-> "get_element", tag |-> <<"", "geography">>, type |-> "process_dataset.Geography", validator |-> "None"],
      [cls |-> "process_dataset.ProcessInformation", attr |-> "technology", factory |-> "get_element", tag |-> <<"", "technology">>, type |-> "process_dataset.Technology", validator |-> "None"],
      [cls |-> "process_dataset.ProcessInformation", attr |-> "mathematicalRelations", factory |-> "get_element", tag |-> <<"", "mathematicalRelations">>, type |-> "process_dataset.MathematicalRelations", validator |-> "None"],
      [cls |-> "process_dataset.ModellingAndValidation", attr |-> "lciMethodAndAllocation", factory |-> "get_element", tag |-> <<"", "LCIMethodAndAllocation">>, type |-> "process_dataset.LCIMethodAndAllocation", validator |-> "None"],
      [cls |-> "process_dataset.ModellingAndValidation", attr |-> "dataSourcesTreatmentAndRepresentativeness", factory |-> "get_element", tag |-> <<"", "dataSourcesTreatmentAndRepresentativeness">>, type |-> "process_dataset.DataSourcesTreatmentAndRepresentativeness", validator |-> "None"],
      [cls |-> "process_dataset.ModellingAndValidation", attr |-> "completeness", factory |-> "get_element", tag |-> <<"", "completeness">>, type |-> "process_dataset.Completeness", validator |-> "None"],
      [cls |-> "process_dataset.ModellingAndValidation", attr |-> "validation", factory |-> "get_element", tag |-> <<"", "validation">>, type |-> "process_dataset.Validation", validator |-> "None"],
      [cls |-> "process_dataset.ModellingAndValidation", attr |-> "complianceDeclarations", factory |-> "get_element", tag |-> <<"", "complianceDeclarations">>, type |-> "process_dataset.ComplianceDeclarations", validator |-> "None"],
      [cls |-> "process_dataset.AdministrativeInformation", attr |-> "commissionerAndGoal", factory |-> "get_element", tag |-> <<"common", "commissionerAndGoal">>, type |-> "common.CommissionerAndGoal", validator |-> "None"],
      [cls |-> "process_dataset.AdministrativeInformation", attr |-> "dataGenerator", factory |-> "get_element", tag |-> <<"", "dataGenerator">>, type |-> "process_dataset.DataGenerator", validator |-> "None"],
      [cls |-> "process_dataset.AdministrativeInformation", attr |-> "dataEntryBy", factory |-> "get_element", tag |-> <<"", "dataEntryBy">>, type |-> "process_dataset.DataEntryBy", validator |-> "None"],
      [cls |-> "process_dataset.AdministrativeInformation", attr |-> "publicationAndOwnership", factory |-> "get_element", tag |-> <<"", "publicationAndOwnership">>, type |-> "process_dataset.PublicationAndOwnership", validator |-> "None"],
      [cls |-> "process_dataset.Exchanges", attr |-> "exchanges", factory |-> "get_element_list", tag |-> <<"", "exchange">>, type |-> "process_dataset.Exchange", validator |-> "None"],
      [cls |-> "process_dataset.LCIAResults", attr |-> "lciaResults", factory |-> "get_element_list", tag |-> <<"", "LCIAResult">>, type |-> "process_dataset.LCIAResult", validator |-> "None"],
      [cls |-> "process_dataset.DataSetInformation", attr |-> "commonUUID", factory |-> "create_attribute_process_dataset", tag |-> <<"common", "UUID">>, type |-> "str", validator |-> "None"],
      [cls |-> "process_dataset.DataSetInformation", attr |-> "identifierOfSubDataSet", factory |-> "create_attribute_process_dataset", tag |-> <<"", "identifierOfSubDataSet">>, type |-> "str", validator |-> "None"],
      [cls |-> "process_dataset.DataSetInformation", attr |-> "synonyms", factory |-> "create_attribute_list_process_dataset", tag |-> <<"common", "synonyms">>, type |-> "str", validator |-> "None"],
      [cls |-> "process_dataset.DataSetInformation", attr |-> "generalComments", factory |-> "create_attribute_list_process_dataset", tag |-> <<"common", "generalComment">>, type |-> "str", validator |-> "None"],
      [cls |-> "process_dataset.DataSetInformation", attr |-> "name", factory |-> "get_element", tag |-> <<"", "name">>, type |-> "process_dataset.Name", validator |-> "None"],
      [cls |-> "process_dataset.DataSetInformation", attr |-> "complementingProcesses", factory |-> "get_element", tag |-> <<"", "complementingProcesses">>, type |-> "process_dataset.ComplementingProcesses", validator |-> "None"],
      [cls |-> "process_dataset.DataSetInformation", attr |-> "classificationInformation", factory |-> "get_element", tag |-> <<"", "classificationInformation">>, type |-> "common.FlowCategoryInformation", validator |-> "None"],
      [cls |-> "process_dataset.DataSetInformation", attr |-> "referenceToExternalDocumentation", factory |-> "get_element", tag |-> <<"", "referenceToExternalDocumentation">>, type |-> "common.GlobalReference", validator |-> "None"],
      [cls |-> "process_dataset.QuantitativeReference", attr |-> "referenceToReferenceFlow", factory |-> "create_attribute_list_process_dataset", tag |-> <<"", "referenceToReferenceFlow">>, type |-> "int", validator |-> "None"],
      [cls |-> "process_dataset.QuantitativeReference", attr |-> "functionalUnitOrOther", factory |-> "create_attribute_list_process_dataset", tag |-> <<"", "functionalUnitOrOther">>, type |-> "str", validator |-> "None"],
      [cls |-> "process_dataset.QuantitativeReference", attr |-> "type", factory |-> "create_attribute_process_dataset", tag |-> <<"", "type">>, type |-> "str", validator |-> "None"],
      [cls |-> "process_dataset.Time", attr |-> "referenceYear", factory |-> "create_element_text_process_dataset", tag |-> <<"", "referenceYear">>, type |-> "int", validator |-> "None"],
      [cls |-> "process_dataset.Time", attr |-> "dataSetValidUntil", factory |-> "create_element_text_process_dataset", tag |-> <<"", "dataSetValidUntil">>, type |-> "int", validator |-> "None"],
      [cls |-> "process_dataset.Time", attr |-> "timeRepresentativenessDescription", factory |-> "create_attribute_list_process_dataset", tag |-> <<"", "timeRepresentativenessDescription">>, type |-> "str", validator |-> "None"],
      [cls |-> "process_dataset.Geography", attr |-> "locationOfOperationSupplyOrProduction", factory |-> "get_element", tag |-> <<"", "locationOfOperationSupplyOrProduction">>, type |-> "process_dataset.LocationOfOperationSupplyOrProduction", validator |-> "None"],
      [cls |-> "process_dataset.Geography", attr |-> "subLocationOfOperationSupplyOrProduction", factory |-> "get_element_list", tag |-> <<"", "subLocationOfOperationSupplyOrProduction">>, type |-> "process_dataset.SubLocationOfOperationSupplyOrProduction", validator |-> "None"],
      [cls |-> "process_dataset.Technology", attr |-> "technologyDescriptionAndIncludedProcesses", factory |-> "create_attribute_list_process_dataset", tag |-> <<"", "technologyDescriptionAndIncludedProcesses">>, type |-> "str", validator |-> "None"],
      [cls |-> "process_dataset.Technology", attr |-> "technologicalApplicability", factory |-> "create_attribute_list_process_dataset", tag |-> <<"", "technologicalApplicability">>, type |-> "str", validator |-> "None"],
      [cls |-> "process_dataset.Technology", attr |-> "referenceToIncludedProcesses", factory |-> "get_element_list", tag |-> <<"", "referenceToIncludedProcesses">>, type |-> "common.GlobalReference", validator |-> "None"],
      [cls |-> "process_dataset.Technology", attr |-> "referenceToTechnologyPictogramme", factory |-> "get_element", tag |-> <<"", "referenceToTechnologyPictogramme">>, type |-> "common.GlobalReference", validator |-> "None"],
      [cls |-> "process_dataset.Technology", attr |-> "referenceToTechnologyFlowDiagrammOrPicture", factory |-> "get_element_list", tag |-> <<"", "referenceToTechnologyFlowDiagrammOrPicture">>, type |-> "common.GlobalReference", validator |-> "None"],
      [cls |-> "process_dataset.MathematicalRelations", attr |-> "modelDescription", factory |-> "create_attribute_list_process_dataset", tag |-> <<"", "modelDescription">>, type |-> "str", validator |-> "None"],
      [cls |-> "process_dataset.MathematicalRelations", attr |-> "variableParameter", factory |-> "get_element_list", tag |-> <<"", "variableParameter">>, type |-> "process_dataset.VariableParameter", validator |-> "None"],
      [cls |-> "process_dataset.LCIMethodAndAllocation", attr |-> "typeOfDataSet", factory |-> "create_element_text_process_dataset", tag |-> <<"", "typeOfDataSet">>, type |-> "str", validator |-> "None"],
      [cls |-> "process_dataset.LCIMethodAndAllocation", attr |-> "LCIMethodPrinciple", factory |-> "create_element_text_process_dataset", tag |-> <<"", "LCIMethodPrinciple">>, type |-> "str", validator |-> "None"],
      [cls |-> "process_dataset.LCIMethodAndAllocation", attr |-> "deviationsFromLCIMethodPrinciple", factory |-> "create_attribute_list_process_dataset", tag |-> <<"", "deviationsFromLCIMethodPrinciple">>, type |-> "str", validator |-> "None"],
      [cls |-> "process_dataset.LCIMethodAndAllocation", attr |-> "LCIMethodApproaches", factory |-> "create_attribute_list_process_dataset", tag |-> <<"", "LCIMethodApproaches">>, type |-> "str", validator |-> "None"],
      [cls |-> "process_dataset.LCIMethodAndAllocation", attr |-> "deviationsFromLCIMethodApproaches", factory |-> "create_attribute_list_process_dataset", tag |-> <<"", "deviationsFromLCIMethodApproaches">>, type |-> "str", validator |-> "None"],
      [cls |-> "process_dataset.LCIMethodAndAllocation", attr |-> "modellingConstants", factory |-> "create_attribute_list_process_dataset", tag |-> <<"", "modellingConstants">>, type |-> "str", validator |-> "None"],
      [cls |-> "process_dataset.LCIMethodAndAllocation", attr |-> "deviationsFromModellingConstants", factory |-> "create_attribute_list_process_dataset", tag |-> <<"", "deviationsFromModellingConstants">>, type |-> "str", validator |-> "None"],
      [cls |-> "process_dataset.LCIMethodAndAllocation", attr |-> "referenceToLCAMethodDetails", factory |-> "get_element_list", tag |-> <<"", "referenceToLCAMethodDetails">>, type |-> "common.GlobalReference", validator |-> "None"],
      [cls |-> "process_dataset.DataSourcesTreatmentAndRepresentativeness", attr |-> "dataCutOffAndCompletenessPrinciples", factory |-> "create_attribute_list_process_dataset", tag |-> <<"", "dataCutOffAndCompletenessPrinciples">>, type |-> "str", validator |-> "None"],
      [cls |-> "process_dataset.DataSourcesTreatmentAndRepresentativeness", attr |-> "deviationsFromCutOffAndCompletenessPrinciples", factory |-> "create_attribute_list_process_dataset", tag |-> <<"", "deviationsFromCutOffAndCompletenessPrinciples">>, type |-> "str", validator |-> "None"],
      [cls |-> "process_dataset.DataSourcesTreatmentAndRepresentativeness", attr |-> "dataSelectionAndCombinationPrinciples", factory |-> "create_attribute_list_process_dataset", tag |-> <<"", "dataSelectionAndCombinationPrinciples">>, type |-> "str", validator |-> "None"],
      [cls |-> "process_dataset.DataSourcesTreatmentAndRepresentativeness", attr |-> "deviationsFromSelectionAndCombinationPrinciples", factory |-> "create_attribute_list_process_dataset", tag |-> <<"", "deviationsFromSelectionAndCombinationPrinciples">>, type |-> "str", validator |-> "None"],
      [cls |-> "process_dataset.DataSourcesTreatmentAndRepresentativeness", attr |-> "dataTreatmentAndExtrapolationsPrinciples", factory |-> "create_attribute_list_process_dataset", tag |-> <<"", "dataTreatmentAndExtrapolationsPrinciples">>, type |-> "str", validator |-> "None"],
      [cls |-> "process_dataset.DataSourcesTreatmentAndRepresentativeness", attr |-> "deviationsFromTreatmentAndExtrapolationPrinciples", factory |-> "create_attribute_list_process_dataset", tag |-> <<"", "deviationsFromTreatmentAndExtrapolationPrinciples">>, type |-> "str", validator |-> "None"],
      [cls |-> "process_dataset.DataSourcesTreatmentAndRepresentativeness", attr |-> "percentageSupplyOrProductionCovered", factory |-> "create_element_text_process_dataset", tag |-> <<"", "percentageSupplyOrProductionCovered">>, type |-> "float", validator |-> "None"],
      [cls |-> "process_dataset.DataSourcesTreatmentAndRepresentativeness", attr |-> "annualSupplyOrProductionVolume", factory |-> "create_attribute_list_process_dataset", tag |-> <<"", "annualSupplyOrProductionVolume">>, type |-> "str", validator |-> "None"],
      [cls |-> "process_dataset.DataSourcesTreatmentAndRepresentativeness", attr |-> "samplingProcedure", factory |-> "create_attribute_list_process_dataset", tag |-> <<"", "samplingProcedure">>, type |-> "str", validator |-> "None"],
      [cls |-> "process_dataset.DataSourcesTreatmentAndRepresentativeness", attr |-> "dataCollectionPeriod", factory |-> "create_attribute_list_process_dataset", tag |-> <<"", "dataCollectionPeriod">>, type |-> "str", validator |-> "None"],
      [cls |-> "process_dataset.DataSourcesTreatmentAndRepresentativeness", attr |-> "uncertaintyAdjustments", factory |-> "create_attribute_list_process_dataset", tag |-> <<"", "uncertaintyAdjustments">>, type |-> "str", validator |-> "None"],
      [cls |-> "process_dataset.DataSourcesTreatmentAndRepresentativeness", attr |-> "useAdviceForDataSet", factory |-> "create_attribute_list_process_dataset", tag |-> <<"", "useAdviceForDataSet">>, type |-> "str", validator |-> "None"],
      [cls |-> "process_dataset.DataSourcesTreatmentAndRepresentativeness", attr |-> "referenceToDataHandlingPrinciples", factory |-> "get_element_list", tag |-> <<"", "referenceToDataHandlingPrinciples">>, type |-> "common.GlobalReference", validator |-> "None"],
      [cls |-> "process_dataset.DataSourcesTreatmentAndRepresentativeness", attr |-> "referenceToDataSource", factory |-> "get_element_list", tag |-> <<"", "referenceToDataSource">>, type |-> "common.GlobalReference", validator |-> "None"],
      [cls |-> "process_dataset.Completeness", attr |-> "completenessProductModel", factory |-> "create_element_text_process_dataset", tag |-> <<"", "completenessProductModel">>, type |-> "str", validator |-> "None"],
      [cls |-> "process_dataset.Completeness", attr |-> "completenessOtherProblemField", factory |-> "create_attribute_list_process_dataset", tag |-> <<"", "completenessOtherProblemField">>, type |-> "str", validator |-> "None"],
      [cls |-> "process_dataset.Completeness", attr |-> "completenessElementaryFlows", factory |-> "get_element_list", tag |-> <<"", "completenessElementaryFlows">>, type |-> "process_dataset.CompletenessElementaryFlows", validator |-> "None"],
      [cls |-> "process_dataset.Completeness", attr |-> "referenceToSupportedImpactAssessmentMethods", factory |-> "get_element", tag |-> <<"", "referenceToSupportedImpactAssessmentMethods">>, type |-> "common.GlobalReference", validator |-> "None"],
      [cls |-> "process_dataset.Validation", attr |-> "reviews", factory |-> "get_element_list", tag |-> <<"", "review">>, type |-> "process_dataset.Review", validator |-> "None"],
      [cls |-> "process_dataset.ComplianceDeclarations", attr |-> "compliances", factory |-> "get_element_list", tag |-> <<"", "compliance">>, type |-> "process_dataset.Compliance", validator |-> "None"],
      [cls |-> "process_dataset.DataGenerator", attr |-> "referenceToPersonOrEntityGeneratingTheDataSet", factory |-> "get_element_list", tag |-> <<"common", "referenceToPersonOrEntityGeneratingTheDataSet">>, type |-> "common.GlobalReference", validator |-> "None"],
      [cls |-> "process_dataset.DataEntryBy", attr |-> "referenceToConvertedOriginalDataSetFrom", factory |-> "get_element", tag |-> <<"common", "referenceToConvertedOriginalDataSetFrom">>, type |-> "common.GlobalReference", validator |-> "None"],
      [cls |-> "process_dataset.DataEntryBy", attr |-> "referenceToDataSetUseApproval", factory |-> "get_element_list", tag |-> <<"common", "referenceToDataSetUseApproval">>, type |-> "common.GlobalReference", validator |-> "None"],
      [cls |-> "process_dataset.PublicationAndOwnership", attr |-> "registrationNumber", factory |-> "create_element_text_process_dataset", tag |-> <<"common", "registrationNumber">>, type |-> "str", validator |-> "None"],
      [cls |-> "process_dataset.PublicationAndOwnership", attr |-> "referenceToRegistrationAuthority", factory |-> "get_element", tag |-> <<"common", "referenceToRegistrationAuthority">>, type |-> "common.GlobalReference", validator |-> "None"],
      [cls |-> "process_dataset.PublicationAndOwnership", attr |-> "referenceToOwnershipOfDataSet", factory |-> "get_element", tag |-> <<"common", "referenceToOwnershipOfDataSet">>, type |-> "common.GlobalReference", validator |-> "None"],
      [cls |-> "process_dataset.Exchange", attr |-> "dataSetInternalID", factory |-> "create_attribute_process_dataset", tag |-> <<"", "dataSetInternalID">>, type |-> "int", validator |-> "None"],
      [cls |-> "process_dataset.Exchange", attr |-> "location", factory |-> "create_element_text_process_dataset", tag |-> <<"", "location">>, type |-> "str", validator |-> "None"],
      [cls |-> "process_dataset.Exchange", attr |-> "functionType", factory |-> "create_element_text_process_dataset", tag |-> <<"", "functionType">>, type |-> "str", validator |-> "None"],
      [cls |-> "process_dataset.Exchange", attr |-> "exchangeDirection", factory |-> "create_element_text_process_dataset", tag |-> <<"", "exchangeDirection">>, type |-> "str", validator |-> "None"],
      [cls |-> "process_dataset.Exchange", attr |-> "referenceToVariable", factory |-> "create_element_text_process_dataset", tag |-> <<"", "referenceToVariable">>, type |-> "str", validator |-> "None"],
      [cls |-> "process_dataset.Exchange", attr |-> "meanAmount", factory |-> "create_element_text_process_dataset", tag |-> <<"", "meanAmount">>, type |-> "float", validator |-> "None"],
      [cls |-> "process_dataset.Exchange", attr |-> "resultingAmount", factory |-> "create_element_text_process_dataset", tag |-> <<"", "resultingAmount">>, type |-> "float", validator |-> "None"],
      [cls |-> "process_dataset.Exchange", attr |-> "minimumAmount", factory |-> "create_element_text_process_dataset", tag |-> <<"", "minimumAmount">>, type |-> "float", validator |-> "None"],
      [cls |-> "process_dataset.Exchange", attr |-> "maximumAmount", factory |-> "create_element_text_process_dataset", tag |-> <<"", "maximumAmount">>, type |-> "float", validator |-> "None"],
      [cls |-> "process_dataset.Exchange", attr |-> "uncertaintyDistributionType", factory |-> "create_element_text_process_dataset", tag |-> <<"", "uncertaintyDistributionType">>, type |-> "str", validator |-> "None"],
      [cls |-> "process_dataset.Exchange", attr |-> "relativeStandardDeviation95In", factory |-> "create_element_text_process_dataset", tag |-> <<"", "relativeStandardDeviation95In">>, type |-> "float", validator |-> "None"],
      [cls |-> "process_dataset.Exchange", attr |-> "dataSourceType", factory |-> "create_element_text_process_dataset", tag |-> <<"", "dataSourceType">>, type |-> "str", validator |-> "None"],
      [cls |-> "process_dataset.Exchange", attr |-> "dataDerivationTypeStatus", factory |-> "create_element_text_process_dataset", tag |-> <<"", "dataDerivationTypeStatus">>, type |-> "str", validator |-> "None"],
      [cls |-> "process_dataset.Exchange", attr |-> "generalComment", factory |-> "create_attribute_list_process_dataset", tag |-> <<"", "generalComment">>, type |-> "str", validator |-> "None"],
      [cls |-> "process_dataset.Exchange", attr |-> "referenceToFlowDataSet", factory |-> "get_element", tag |-> <<"", "referenceToFlowDataSet">>, type |-> "common.GlobalReference", validator |-> "None"],
      [cls |-> "process_dataset.Exchange", attr |-> "allocations", factory |-> "get_element", tag |-> <<"", "allocations">>, type |-> "process_dataset.Allocations", validator |-> "None"],
      [cls |-> "process_dataset.Exchange", attr |-> "referencesToDataSource", factory |-> "get_element", tag |-> <<"", "referencesToDataSource">>, type |-> "process_dataset.ReferencesToDataSource", validator |-> "None"],
      [cls |-> "process_dataset.LCIAResult", attr |-> "meanAmount", factory |-> "create_element_text_process_dataset", tag |-> <<"", "meanAmount">>, type |-> "float", validator |-> "None"],
      [cls |-> "process_dataset.LCIAResult", attr |-> "uncertaintyDistributionType", factory |-> "create_element_text_process_dataset", tag |-> <<"", "uncertaintyDistributionType">>, type |-> "str", validator |-> "None"],
      [cls |-> "process_dataset.LCIAResult", attr |-> "relativeStandardDeviation95In", factory |-> "create_element_text_process_dataset", tag |-> <<"", "relativeStandardDeviation95In">>, type |-> "float", validator |-> "None"],
      [cls |-> "process_dataset.LCIAResult", attr |-> "commonGeneralComment", factory |-> "create_attribute_list_process_dataset", tag |-> <<"common", "generalComment">>, type |-> "str", validator |-> "None"],
      [cls |-> "process_dataset.LCIAResult", attr |-> "referenceToLCIAMethodDataSets", factory |-> "get_element", tag |-> <<"", "referenceToLCIAMethodDataSet">>, type |-> "common.GlobalReference", validator |-> "None"],
      [cls |-> "process_dataset.Name", attr |-> "baseName", factory |-> "create_attribute_list_process_dataset", tag |-> <<"", "baseName">>, type |-> "str", validator |-> "None"],
      [cls |-> "process_dataset.Name", attr |-> "treatmentStandardsRoutes", factory |-> "create_attribute_list_process_dataset", tag |-> <<"", "treatmentStandardsRoutes">>, type |-> "str", validator |-> "None"],
      [cls |-> "process_dataset.Name", attr |-> "mixAndLocationTypes", factory |-> "create_attribute_list_process_dataset", tag |-> <<"", "mixAndLocationTypes">>, type |-> "str", validator |-> "None"],
      [cls |-> "process_dataset.Name", attr |-> "functionalUnitFlowProperties", factory |-> "create_attribute_list_process_dataset", tag |-> <<"", "functionalUnitFlowProperties">>, type |-> "str", validator |-> "None"],
      [cls |-> "process_dataset.ComplementingProcesses", attr |-> "referenceToComplementingProcesses", factory |-> "get_element_list", tag |-> <<"", "referenceToComplementingProcess">>, type |-> "common.GlobalReference", validator |-> "None"],
      [cls |-> "process_dataset.LocationOfOperationSupplyOrProduction", attr |-> "descriptionOfRestrictions", factory |-> "create_attribute_list_process_dataset", tag |-> <<"", "descriptionOfRestrictions">>, type |-> "str", validator |-> "None"],
      [cls |-> "process_dataset.LocationOfOperationSupplyOrProduction", attr |-> "location", factory |-> "create_attribute_process_dataset", tag |-> <<"", "location">>, type |-> "str", validator |-> "None"],
      [cls |-> "process_dataset.LocationOfOperationSupplyOrProduction", attr |-> "latitudeAndLongitude", factory |-> "create_attribute_process_dataset", tag |-> <<"", "latitudeAndLongitude">>, type |-> "str", validator |-> "None"],
      [cls |-> "process_dataset.SubLocationOfOperationSupplyOrProduction", attr |-> "descriptionOfRestrictions", factory |-> "create_attribute_list_process_dataset", tag |-> <<"", "descriptionOfRestrictions">>, type |-> "str", validator |-> "None"],
      [cls |-> "process_dataset.SubLocationOfOperationSupplyOrProduction", attr |-> "subLocation", factory |-> "create_attribute_process_dataset", tag |-> <<"", "subLocation">>, type |-> "str", validator |-> "None"],
      [cls |-> "process_dataset.SubLocationOfOperationSupplyOrProduction", attr |-> "latitudeAndLongitude", factory |-> "create_attribute_process_dataset", tag |-> <<"", "latitudeAndLongitude">>, type |-> "str", validator |-> "None"],
      [cls |-> "process_dataset.VariableParameter", attr |-> "formula", factory |-> "create_element_text_process_dataset", tag |-> <<"", "formula">>, type |-> "str", validator |-> "None"],
      [cls |-> "process_dataset.VariableParameter", attr |-> "meanValue", factory |-> "create_element_text_process_dataset", tag |-> <<"", "meanValue">>, type |-> "float", validator |-> "None"],
      [cls |-> "process_dataset.VariableParameter", attr |-> "minimumValue", factory |-> "create_element_text_process_dataset", tag |-> <<"", "minimumValue">>, type |-> "float", validator |-> "None"],
      [cls |-> "process_dataset.VariableParameter", attr |-> "maximumValue", factory |-> "create_element_text_process_dataset", tag |-> <<"", "maximumValue">>, type |-> "float", validator |-> "None"],
      [cls |-> "process_dataset.VariableParameter", attr |-> "uncertaintyDistributionType", factory |-> "create_element_text_process_dataset", tag |-> <<"", "uncertaintyDistributionType">>, type |-> "str", validator |-> "None"],
      [cls |-> "process_dataset.VariableParameter", attr |-> "relativeStandardDeviation95In", factory |-> "create_element_text_process_dataset", tag |-> <<"", "relativeStandardDeviation95In">>, type |-> "float", validator |-> "None"],
      [cls |-> "process_dataset.VariableParameter", attr |-> "comment", factory |-> "create_attribute_list_process_dataset", tag |-> <<"", "comment">>, type |-> "str", validator |-> "None"],
      [cls |-> "process_dataset.VariableParameter", attr |-> "name", factory |-> "create_attribute_process_dataset", tag |-> <<"", "name">>, type |-> "str", validator |-> "None"],
      [cls |-> "process_dataset.CompletenessElementaryFlows", attr |-> "type", factory |-> "create_attribute_process_dataset", tag |-> <<"", "type">>, type |-> "str", validator |-> "None"],
      [cls |-> "process_dataset.CompletenessElementaryFlows", attr |-> "value", factory |-> "create_attribute_process_dataset", tag |-> <<"", "value">>, type |-> "str", validator |-> "None"],
      [cls |-> "process_dataset.Review", attr |-> "type", factory |-> "create_attribute_process_dataset", tag |-> <<"", "type">>, type |-> "str", validator |-> "None"],
      [cls |-> "process_dataset.Compliance", attr |-> "nomenclatureCompliance", factory |-> "create_element_text_process_dataset", tag |-> <<"common", "nomenclatureCompliance">>, type |-> "str", validator |-> "None"],
      [cls |-> "process_dataset.Compliance", attr |-> "methodologicalCompliance", factory |-> "create_element_text_process_dataset", tag |-> <<"common", "methodologicalCompliance">>, type |-> "str", validator |-> "None"],
      [cls |-> "process_dataset.Compliance", attr |-> "reviewCompliance", factory |-> "create_element_text_process_dataset", tag |-> <<"common", "reviewCompliance">>, type |-> "str", validator |-> "None"],
      [cls |-> "process_dataset.Compliance", attr |-> "documentationCompliance", factory |-> "create_element_text_process_dataset", tag |-> <<"common", "documentationCompliance">>, type |-> "str", validator |-> "None"],
      [cls |-> "process_dataset.Compliance", attr |-> "qualityCompliance", factory |-> "create_element_text_process_dataset", tag |-> <<"common", "qualityCompliance">>, type |-> "str", validator |-> "None"],
      [cls |-> "process_dataset.Allocations", attr |-> "allocations", factory |-> "get_element_list", tag |-> <<"", "allocation">>, type |-> "process_dataset.Allocation", validator |-> "None"],
      [cls |-> "process_dataset.Allocation", attr |-> "internalReferenceToCoProduct", factory |-> "create_attribute_process_dataset", tag |-> <<"", "internalReferenceToCoProduct">>, type |-> "int", validator |-> "None"],
      [cls |-> "process_dataset.Allocation", attr |-> "allocatedFraction", factory |-> "create_attribute_process_dataset", tag |-> <<"", "allocatedFraction">>, type |-> "float", validator |-> "None"],
      [cls |-> "process_dataset.ReferencesToDataSource", attr |-> "referenceToDataSources", factory |-> "get_element_list", tag |-> <<"", "referenceToDataSource">>, type |-> "common.GlobalReference", validator |-> "None"] }

\* flow_dataset.py: the classes the module defines, each with its base classes in declaration order.
FlowClasses ==
    { [id |-> "flow_dataset.FlowDataSet", bases |-> <<"etree.ElementBase">>],
      [id |-> "flow_dataset.FlowInformation", bases |-> <<"etree.ElementBase">>],
      [id |-> "flow_dataset.ModellingAndValidation", bases |-> <<"etree.ElementBase">>],
      [id |-> "flow_dataset.AdministrativeInformation", bases |-> <<"etree.ElementBase">>],
      [id |-> "flow_dataset.FlowProperties", bases |-> <<"etree.ElementBase">>],
      [id |-> "flow_dataset.DataSetInformation", bases |-> <<"etree.ElementBase">>],
      [id |-> "flow_dataset.QuantitativeReference", bases |-> <<"etree.ElementBase">>],
      [id |-> "flow_dataset.Geography", bases |-> <<"etree.ElementBase">>],
      [id |-> "flow_dataset.Technology", bases |-> <<"etree.ElementBase">>],
      [id |-> "flow_dataset.LCIMethod", bases |-> <<"etree.ElementBase">>],
      [id |-> "flow_dataset.DataEntryBy", bases |-> <<"common.DataEntryByGroup1", "common.DataEntryByGroup2">>],
      [id |-> "flow_dataset.PublicationAndOwnership", bases |-> <<"common.PublicationAndOwnershipGroup1">>],
      [id |-> "flow_dataset.FlowProperty", bases |-> <<"etree.ElementBase">>],
      [id |-> "flow_dataset.Name", bases |-> <<"etree.ElementBase">>] }

\* flow_dataset.py: the accessors each class declares itself. factory is the helper (helpers.py) or
\* lxmlh function that builds it, tag <<prefix, local>> stands for "prefix:local" ("local" when
\* the prefix is empty), type is the factory's type argument or the class of the return annotation.
FlowAccessors ==
    { [cls |-> "flow_dataset.FlowDataSet", attr |-> "version", factory |-> "create_attribute_flow_dataset", tag |-> <<"", "version">>, type |-> "str", validator |-> "None"],
      [cls |-> "flow_dataset.FlowDataSet", attr |-> "locations", factory |-> "create_attribute_flow_dataset", tag |-> <<"", "locations">>, type |-> "str", validator |-> "None"],
      [cls |-> "flow_dataset.FlowDataSet", attr |-> "flowInformation", factory |-> "get_element", tag |-> <<"", "flowInformation">>, type |-> "flow_dataset.FlowInformation", validator |-> "None"],
      [cls |-> "flow_dataset.FlowDataSet", attr |-> "modellingAndValidation", factory |-> "get_element", tag |-> <<"", "modellingAndValidation">>, type |-> "flow_dataset.ModellingAndValidation", validator |-> "None"],
      [cls |-> "flow_dataset.FlowDataSet", attr |-> "administrativeInformation", factory |-> "get_element", tag |-> <<"", "administrativeInformation">>, type |-> "flow_dataset.AdministrativeInformation", validator |-> "None"],
      [cls |-> "flow_dataset.FlowDataSet", attr |-> "flowProperties", factory |-> "get_element", tag |-> <<"", "flowProperties">>, type |-> "flow_dataset.FlowProperties", validator |-> "None"],
      [cls |-> "flow_dataset.FlowInformation", attr |-> "dataSetInformation", factory |-> "get_element", tag |-> <<"", "dataSetInformation">>, type |-> "flow_dataset.DataSetInformation", validator |-> "None"],
      [cls |-> "flow_dataset.FlowInformation", attr |-> "quantitativeReference", factory |-> "get_element", tag |-> <<"", "quantitativeReference">>, type |-> "flow_dataset.QuantitativeReference", validator |-> "None"],
      [cls |-> "flow_dataset.FlowInformation", attr |-> "geography", factory |-> "get_element", tag |-> <<"", "geography">>, type |-> "flow_dataset.Geography", validator |-> "None"],
      [cls |-> "flow_dataset.FlowInformation", attr |-> "technology", factory |-> "get_element", tag |-> <<"", "technology">>, type |-> "flow_dataset.Technology", validator |-> "None"],
      [cls |-> "flow_dataset.ModellingAndValidation", attr |-> "lciMethod", factory |-> "get_element", tag |-> <<"", "LCIMethod">>, type |-> "flow_dataset.LCIMethod", validator |-> "None"],
      [cls |-> "flow_dataset.ModellingAndValidation", attr |-> "complianceDeclarations", factory |-> "get_element", tag |-> <<"", "complianceDeclarations">>, type |-> "common.ComplianceDeclarations", validator |-> "None"],
      [cls |-> "flow_dataset.AdministrativeInformation", attr |-> "dataEntryBy", factory |-> "get_element", tag |-> <<"", "dataEntryBy">>, type |-> "flow_dataset.DataEntryBy", validator |-> "None"],
      [cls |-> "flow_dataset.AdministrativeInformation", attr |-> "publicationAndOwnership", factory |-> "get_element", tag |-> <<"", "publicationAndOwnership">>, type |-> "flow_dataset.PublicationAndOwnership", validator |-> "None"],
      [cls |-> "flow_dataset.FlowProperties", attr |-> "flowProperties", factory |-> "get_element_list", tag |-> <<"", "flowProperty">>, type |-> "flow_dataset.FlowProperty", validator |-> "None"],
      [cls |-> "flow_dataset.DataSetInformation", attr |-> "commonUUID", factory |-> "create_attribute_flow_dataset", tag |-> <<"common", "UUID">>, type |-> "str", validator |-> "None"],
      [cls |-> "flow_dataset.DataSetInformation", attr |-> "synonyms", factory |-> "create_attribute_list_flow_dataset", tag |-> <<"common", "synonyms">>, type |-> "str", validator |-> "None"],
      [cls |-> "flow_dataset.DataSetInformation", attr |-> "casNumber", factory |-> "create_attribute_flow_dataset", tag |-> <<"", "CASNumber">>, type |-> "str", validator |-> "validate_cas"],
      [cls |-> "flow_dataset.DataSetInformation", attr |-> "sumFormula", factory |-> "create_element_text_flow_dataset", tag |-> <<"", "sumFormula">>, type |-> "str", validator |-> "None"],
      [cls |-> "flow_dataset.DataSetInformation", attr |-> "generalComments", factory |-> "create_attribute_list_flow_dataset", tag |-> <<"common", "generalComment">>, type |-> "str", validator |-> "None"],
      [cls |-> "flow_dataset.DataSetInformation", attr |-> "name", factory |-> "get_element", tag |-> <<"", "name">>, type |-> "flow_dataset.Name", validator |-> "None"],
      [cls |-> "flow_dataset.DataSetInformation", attr |-> "classificationInformation", factory |-> "get_element", tag |-> <<"", "classificationInformation">>, type |-> "common.FlowCategoryInformation", validator |-> "None"],
      [cls |-> "flow_dataset.QuantitativeReference", attr |-> "referenceToReferenceFlowProperty", factory |-> "create_element_text_flow_dataset", tag |-> <<"", "referenceToReferenceFlowProperty">>, type |-> "int", validator |-> "None"],
      [cls |-> "flow_dataset.Geography", attr |-> "locationOfSupply", factory |-> "create_attribute_list_flow_dataset", tag |-> <<"", "locationOfSupply">>, type |-> "str", validator |-> "None"],
      [cls |-> "flow_dataset.Technology", attr |-> "technologicalApplicability", factory |-> "create_attribute_list_flow_dataset", tag |-> <<"", "technologicalApplicability">>, type |-> "str", validator |-> "None"],
      [cls |-> "flow_dataset.Technology", attr |-> "referenceToTechnicalSpecification", factory |-> "get_element_list", tag |-> <<"", "referenceToTechnicalSpecification">>, type |-> "common.GlobalReference", validator |-> "None"],
      [cls |-> "flow_dataset.LCIMethod", attr |-> "typeOfDataSet", factory |-> "create_element_text_flow_dataset", tag |-> <<"", "typeOfDataSet">>, type |-> "str", validator |-> "None"],
      [cls |-> "flow_dataset.PublicationAndOwnership", attr |-> "referenceToOwnershipOfDataSet", factory |-> "get_element", tag |-> <<"common", "referenceToOwnershipOfDataSet">>, type |-> "common.GlobalReference", validator |-> "None"],
      [cls |-> "flow_dataset.FlowProperty", attr |-> "dataSetInternalID", factory |-> "create_attribute_flow_dataset", tag |-> <<"", "dataSetInternalID">>, type |-> "int", validator |-> "None"],
      [cls |-> "flow_dataset.FlowProperty", attr |-> "meanValue", factory |-> "create_element_text_flow_dataset", tag |-> <<"", "meanValue">>, type |-> "float", validator |-> "None"],
      [cls |-> "flow_dataset.FlowProperty", attr |-> "minimumValue", factory |-> "create_element_text_flow_dataset", tag |-> <<"", "minimumValue">>, type |-> "float", validator |-> "None"],
      [cls |-> "flow_dataset.FlowProperty", attr |-> "maximumValue", factory |-> "create_element_text_flow_dataset", tag |-> <<"", "maximumValue">>, type |-> "float", validator |-> "None"],
      [cls |-> "flow_dataset.FlowProperty", attr |-> "uncertaintyDistributionType", factory |-> "create_element_text_flow_dataset", tag |-> <<"", "uncertaintyDistributionType">>, type |-> "str", validator |-> "None"],
      [cls |-> "flow_dataset.FlowProperty", attr |-> "relativeStandardDeviation95In", factory |-> "create_element_text_flow_dataset", tag |-> <<"", "relativeStandardDeviation95In">>, type |-> "float", validator |-> "None"],
      [cls |-> "flow_dataset.FlowProperty", attr |-> "dataDerivationTypeStatus", factory |-> "create_element_text_flow_dataset", tag |-> <<"", "dataDerivationTypeStatus">>, type |-> "str", validator |-> "None"],
      [cls |-> "flow_dataset.FlowProperty", attr |-> "generalComment", factory |-> "create_attribute_list_flow_dataset", tag |-> <<"", "generalComment">>, type |-> "str", validator |-> "None"],
      [cls |-> "flow_dataset.FlowProperty", attr |-> "referenceToFlowPropertyDataSet", factory |-> "get_element", tag |-> <<"", "referenceToFlowPropertyDataSet">>, type |-> "common.GlobalReference", validator |-> "None"],
      [cls |-> "flow_dataset.Name", attr |-> "baseName", factory |-> "create_attribute_list_flow_dataset", tag |-> <<"", "baseName">>, type |-> "str", validator |-> "None"],
      [cls |-> "flow_dataset.Name", attr |-> "treatmentStandardsRoutes", factory |-> "create_attribute_list_flow_dataset", tag |-> <<"", "treatmentStandardsRoutes">>, type |-> "str", validator |-> "None"],
      [cls |-> "flow_dataset.Name", attr |-> "mixAndLocationTypes", factory |-> "create_attribute_list_flow_dataset", tag |-> <<"", "mixAndLocationTypes">>, type |-> "str", validator |-> "None"],
      [cls |-> "flow_dataset.Name", attr |-> "flowProperties", factory |-> "create_attribute_list_flow_dataset", tag |-> <<"", "flowProperties">>, type |-> "str", validator |-> "None"] }

\* flow_property_dataset.py: the classes the module defines, each with its base classes in declaration order.
FlowPropertyClasses ==
    { [id |-> "flow_property_dataset.FlowPropertyDataSet", bases |-> <<"etree.ElementBase">>],
      [id |-> "flow_property_dataset.FlowPropertiesInformation", bases |-> <<"etree.ElementBase">>],
      [id |-> "flow_property_dataset.ModellingAndValidation", bases |-> <<"etree.ElementBase">>],
      [id |-> "flow_property_dataset.AdministrativeInformation", bases |-> <<"etree.ElementBase">>],
      [id |-> "flow_property_dataset.DataSetInformation", bases |-> <<"etree.ElementBase">>],
      [id |-> "flow_property_dataset.QuantitativeReference", bases |-> <<"etree.ElementBase">>],
      [id |-> "flow_property_dataset.DataSourcesTreatmentAndRepresentativeness", bases |-> <<"etree.ElementBase">>],
      [id |-> "flow_property_dataset.DataEntryBy", bases |-> <<"common.DataEntryByGroup1">>],
      [id |-> "flow_property_dataset.PublicationAndOwnership", bases |-> <<"common.PublicationAndOwnershipGroup1">>] }

\* flow_property_dataset.py: the accessors each class declares itself. factory is the helper (helpers.py) or
\* lxmlh function that builds it, tag <<prefix, local>> stands for "prefix:local" ("local" when
\* the prefix is empty), type is the factory's type argument or the class of the return annotation.
FlowPropertyAccessors ==
    { [cls |-> "flow_property_dataset.FlowPropertyDataSet", attr |-> "version", factory |-> "create_attribute_flow_property_dataset", tag |-> <<"", "version">>, type |-> "str", validator |-> "None"],
      [cls |-> "flow_property_dataset.FlowPropertyDataSet", attr |-> "flowPropertiesInformation", factory |-> "get_element", tag |-> <<"", "flowPropertiesInformation">>, type |-> "flow_property_dataset.FlowPropertiesInformation", validator |-> "None"],
      [cls |-> "flow_property_dataset.FlowPropertyDataSet", attr |-> "modellingAndValidation", factory |-> "get_element", tag |-> <<"", "modellingAndValidation">>, type |-> "flow_property_dataset.ModellingAndValidation", validator |-> "None"],
      [cls |-> "flow_property_dataset.FlowPropertyDataSet", attr |-> "administrativeInformation", factory |-> "get_element", tag |-> <<"", "administrativeInformation">>, type |-> "flow_property_dataset.AdministrativeInformation", validator |-> "None"],
      [cls |-> "flow_property_dataset.FlowPropertiesInformation", attr |-> "dataSetInformation", factory |-> "get_element", tag |-> <<"", "dataSetInformation">>, type |-> "flow_property_dataset.DataSetInformation", validator |-> "None"],
      [cls |-> "flow_property_dataset.FlowPropertiesInformation", attr |-> "quantitativeReference", factory |-> "get_element", tag |-> <<"", "quantitativeReference">>, type |-> "flow_property_dataset.QuantitativeReference", validator |-> "None"],
      [cls |-> "flow_property_dataset.ModellingAndValidation", attr |-> "dataSourcesTreatmentAndRepresentativeness", factory |-> "get_element", tag |-> <<"", "dataSourcesTreatmentAndRepresentativeness">>, type |-> "flow_property_dataset.DataSourcesTreatmentAndRepresentativeness", validator |-> "None"],
      [cls |-> "flow_property_dataset.ModellingAndValidation", attr |-> "complianceDeclarations", factory |-> "get_element", tag |-> <<"", "complianceDeclarations">>, type |-> "common.ComplianceDeclarations", validator |-> "None"],
      [cls |-> "flow_property_dataset.AdministrativeInformation", attr |-> "dataEntryBy", factory |-> "get_element", tag |-> <<"", "dataEntryBy">>, type |-> "flow_property_dataset.DataEntryBy", validator |-> "None"],
      [cls |-> "flow_property_dataset.AdministrativeInformation", attr |-> "publicationAndOwnership", factory |-> "get_element", tag |-> <<"", "publicationAndOwnership">>, type |-> "flow_property_dataset.PublicationAndOwnership", validator |-> "None"],
      [cls |-> "flow_property_dataset.DataSetInformation", attr |-> "commonUUID", factory |-> "create_attribute_flow_property_dataset", tag |-> <<"common", "UUID">>, type |-> "str", validator |-> "None"],
      [cls |-> "flow_property_dataset.DataSetInformation", attr |-> "names", factory |-> "create_attribute_list_flow_property_dataset", tag |-> <<"common", "name">>, type |-> "str", validator |-> "None"],
      [cls |-> "flow_property_dataset.DataSetInformation", attr |-> "synonyms", factory |-> "create_attribute_list_flow_property_dataset", tag |-> <<"common", "synonyms">>, type |-> "str", validator |-> "None"],
      [cls |-> "flow_property_dataset.DataSetInformation", attr |-> "generalComments", factory |-> "create_attribute_list_flow_property_dataset", tag |-> <<"common", "generalComment">>, type |-> "str", validator |-> "None"],
      [cls |-> "flow_property_dataset.DataSetInformation", attr |-> "classificationInformation", factory |-> "get_element", tag |-> <<"", "classificationInformation">>, type |-> "common.ClassificationInformation", validator |-> "None"],
      [cls |-> "flow_property_dataset.QuantitativeReference", attr |-> "referenceToReferenceUnitGroup", factory |-> "get_element", tag |-> <<"", "referenceToReferenceUnitGroup">>, type |-> "common.GlobalReference", validator |-> "None"],
      [cls |-> "flow_property_dataset.DataSourcesTreatmentAndRepresentativeness", attr |-> "referenceToDataSources", factory |-> "get_element_list", tag |-> <<"", "referenceToDataSource">>, type |-> "common.GlobalReference", validator |-> "None"],
      [cls |-> "flow_property_dataset.PublicationAndOwnership", attr |-> "referenceToOwnershipOfDataSet", factory |-> "get_element", tag |-> <<"common", "referenceToOwnershipOfDataSet">>, type |-> "common.GlobalReference", validator |-> "None"] }

\* unit_group_dataset.py: the classes the module defines, each with its base classes in declaration order.
UnitGroupClasses ==
    { [id |-> "unit_group_dataset.UnitGroupDataSet", bases |-> <<"etree.ElementBase">>],
      [id |-> "unit_group_dataset.UnitGroupInformation", bases |-> <<"etree.ElementBase">>],
      [id |-> "unit_group_dataset.ModellingAndValidation", bases |-> <<"etree.ElementBase">>],
      [id |-> "unit_group_dataset.AdministrativeInformation", bases |-> <<"etree.ElementBase">>],
      [id |-> "unit_group_dataset.Units", bases |-> <<"etree.ElementBase">>],
      [id |-> "unit_group_dataset.DataSetInformation", bases |-> <<"etree.ElementBase">>],
      [id |-> "unit_group_dataset.QuantitativeReference", bases |-> <<"etree.ElementBase">>],
      [id |-> "unit_group_dataset.DataEntryBy", bases |-> <<"common.DataEntryByGroup1">>],
      [id |-> "unit_group_dataset.PublicationAndOwnership", bases |-> <<"common.PublicationAndOwnershipGroup1">>],
      [id |-> "unit_group_dataset.Unit", bases |-> <<"etree.ElementBase">>] }

\* unit_group_dataset.py: the accessors each class declares itself. factory is the helper (helpers.py) or
\* lxmlh function that builds it, tag <<prefix, local>> stands for "prefix:local" ("local" when
\* the prefix is empty), type is the factory's type argument or the class of the return annotation.
UnitGroupAccessors ==
    { [cls |-> "unit_group_dataset.UnitGroupDataSet", attr |-> "version", factory |-> "create_attribute_unit_group_dataset", tag |-> <<"", "version">>, type |-> "str", validator |-> "None"],
      [cls |-> "unit_group_dataset.UnitGroupDataSet", attr |-> "unitGroupInformation", factory |-> "get_element", tag |-> <<"", "unitGroupInformation">>, type |-> "unit_group_dataset.UnitGroupInformation", validator |-> "None"],
      [cls |-> "unit_group_dataset.UnitGroupDataSet", attr |-> "modellingAndValidation", factory |-> "get_element", tag |-> <<"", "modellingAndValidation">>, type |-> "unit_group_dataset.ModellingAndValidation", validator |-> "None"],
      [cls |-> "unit_group_dataset.UnitGroupDataSet", attr |-> "administrativeInformation", factory |-> "get_element", tag |-> <<"", "administrativeInformation">>, type |-> "unit_group_dataset.AdministrativeInformation", validator |-> "None"],
      [cls |-> "unit_group_dataset.UnitGroupDataSet", attr |-> "units", factory |-> "get_element", tag |-> <<"", "units">>, type |-> "unit_group_dataset.Units", validator |-> "None"],
      [cls |-> "unit_group_dataset.UnitGroupInformation", attr |-> "dataSetInformation", factory |-> "get_element", tag |-> <<"", "dataSetInformation">>, type |-> "unit_group_dataset.DataSetInformation", validator |-> "None"],
      [cls |-> "unit_group_dataset.UnitGroupInformation", attr |-> "quantitativeReference", factory |-> "get_element", tag |-> <<"", "quantitativeReference">>, type |-> "unit_group_dataset.QuantitativeReference", validator |-> "None"],
      [cls |-> "unit_group_dataset.ModellingAndValidation", attr |-> "complianceDeclarations", factory |-> "get_element", tag |-> <<"", "complianceDeclarations">>, type |-> "common.ComplianceDeclarations", validator |-> "None"],
      [cls |-> "unit_group_dataset.AdministrativeInformation", attr |-> "dataEntryBy", factory |-> "get_element", tag |-> <<"", "dataEntryBy">>, type |-> "unit_group_dataset.DataEntryBy", validator |-> "None"],
      [cls |-> "unit_group_dataset.AdministrativeInformation", attr |-> "publicationAndOwnership", factory |-> "get_element", tag |-> <<"", "publicationAndOwnership">>, type |-> "unit_group_dataset.PublicationAndOwnership", validator |-> "None"],
      [cls |-> "unit_group_dataset.Units", attr |-> "units", factory |-> "get_element_list", tag |-> <<"", "unit">>, type |-> "unit_group_dataset.Unit", validator |-> "None"],
      [cls |-> "unit_group_dataset.DataSetInformation", attr |-> "commonUUID", factory |-> "create_attribute_unit_group_dataset", tag |-> <<"common", "UUID">>, type |-> "str", validator |-> "None"],
      [cls |-> "unit_group_dataset.DataSetInformation", attr |-> "names", factory |-> "create_attribute_list_unit_group_dataset", tag |-> <<"common", "name">>, type |-> "str", validator |-> "None"],
      [cls |-> "unit_group_dataset.DataSetInformation", attr |-> "synonyms", factory |-> "create_attribute_list_unit_group_dataset", tag |-> <<"common", "synonyms">>, type |-> "str", validator |-> "None"],
      [cls |-> "unit_group_dataset.DataSetInformation", attr |-> "generalComments", factory |-> "create_attribute_list_unit_group_dataset", tag |-> <<"common", "generalComment">>, type |-> "str", validator |-> "None"],
      [cls |-> "unit_group_dataset.DataSetInformation", attr |-> "classificationInformation", factory |-> "get_element", tag |-> <<"", "classificationInformation">>, type |-> "common.ClassificationInformation", validator |-> "None"],
      [cls |-> "unit_group_dataset.QuantitativeReference", attr |-> "referenceToReferenceUnit", factory |-> "create_attribute_unit_group_dataset", tag |-> <<"", "referenceToReferenceUnit">>, type |-> "int", validator |-> "None"],
      [cls |-> "unit_group_dataset.PublicationAndOwnership", attr |-> "referenceToOwnershipOfDataSet", factory |-> "get_element", tag |-> <<"common", "referenceToOwnershipOfDataSet">>, type |-> "common.GlobalReference", validator |-> "None"],
      [cls |-> "unit_group_dataset.Unit", attr |-> "dataSetInternalID", factory |-> "create_attribute_unit_group_dataset", tag |-> <<"", "dataSetInternalID">>, type |-> "int", validator |-> "None"],
      [cls |-> "unit_group_dataset.Unit", attr |-> "meanValue", factory |-> "create_element_text_unit_group_dataset", tag |-> <<"", "meanValue">>, type |-> "float", validator |-> "None"],
      [cls |-> "unit_group_dataset.Unit", attr |-> "generalComment", factory |-> "create_attribute_list_unit_group_dataset", tag |-> <<"", "name">>, type |-> "str", validator |-> "None"] }

\* contact_dataset.py: the classes the module defines, each with its base classes in declaration order.
ContactClasses ==
    { [id |-> "contact_dataset.ContactDataSet", bases |-> <<"etree.ElementBase">>],
      [id |-> "contact_dataset.ContactInformation", bases |-> <<"etree.ElementBase">>],
      [id |-> "contact_dataset.AdministrativeInformation", bases |-> <<"etree.ElementBase">>],
      [id |-> "contact_dataset.DataSetInformation", bases |-> <<"etree.ElementBase">>],
      [id |-> "contact_dataset.DataEntryBy", bases |-> <<"common.DataEntryByGroup1">>],
      [id |-> "contact_dataset.PublicationAndOwnership", bases |-> <<"common.PublicationAndOwnershipGroup1">>] }

\* contact_dataset.py: the accessors each class declares itself. factory is the helper (helpers.py) or
\* lxmlh function that builds it, tag <<prefix, local>> stands for "prefix:local" ("local" when
\* the prefix is empty), type is the factory's type argument or the class of the return annotation.
ContactAccessors ==
    { [cls |-> "contact_dataset.ContactDataSet", attr |-> "version", factory |-> "create_attribute_contact_dataset", tag |-> <<"", "version">>, type |-> "str", validator |-> "None"],
      [cls |-> "contact_dataset.ContactDataSet", attr |-> "contactInformation", factory |-> "get_element", tag |-> <<"", "contactInformation">>, type |-> "contact_dataset.ContactInformation", validator |-> "None"],
      [cls |-> "contact_dataset.ContactDataSet", attr |-> "administrativeInformation", factory |-> "get_element", tag |-> <<"", "administrativeInformation">>, type |-> "contact_dataset.AdministrativeInformation", validator |-> "None"],
      [cls |-> "contact_dataset.ContactInformation", attr |-> "dataSetInformation", factory |-> "get_element", tag |-> <<"", "dataSetInformation">>, type |-> "contact_dataset.DataSetInformation", validator |-> "None"],
      [cls |-> "contact_dataset.AdministrativeInformation", attr |-> "dataEntryBy", factory |-> "get_element", tag |-> <<"", "dataEntryBy">>, type |-> "contact_dataset.DataEntryBy", validator |-> "None"],
      [cls |-> "contact_dataset.AdministrativeInformation", attr |-> "publicationAndOwnership", factory |-> "get_element", tag |-> <<"", "publicationAndOwnership">>, type |-> "contact_dataset.PublicationAndOwnership", validator |-> "None"],
      [cls |-> "contact_dataset.DataSetInformation", attr |-> "UUID", factory |-> "create_element_text_contact_dataset", tag |-> <<"common", "UUID">>, type |-> "str", validator |-> "None"],
      [cls |-> "contact_dataset.DataSetInformation", attr |-> "shortNames", factory |-> "create_attribute_list_contact_dataset", tag |-> <<"common", "shortName">>, type |-> "str", validator |-> "None"],
      [cls |-> "contact_dataset.DataSetInformation", attr |-> "names", factory |-> "create_attribute_list_contact_dataset", tag |-> <<"common", "name">>, type |-> "str", validator |-> "None"],
      [cls |-> "contact_dataset.DataSetInformation", attr |-> "contactAddresses", factory |-> "create_attribute_list_contact_dataset", tag |-> <<"", "contactAddress">>, type |-> "str", validator |-> "None"],
      [cls |-> "contact_dataset.DataSetInformation", attr |-> "telephone", factory |-> "create_attribute_contact_dataset", tag |-> <<"", "telephone">>, type |-> "str", validator |-> "None"],
      [cls |-> "contact_dataset.DataSetInformation", attr |-> "telefax", factory |-> "create_attribute_contact_dataset", tag |-> <<"", "telefax">>, type |-> "str", validator |-> "None"],
      [cls |-> "contact_dataset.DataSetInformation", attr |-> "email", factory |-> "create_attribute_contact_dataset", tag |-> <<"", "email">>, type |-> "str", validator |-> "None"],
      [cls |-> "contact_dataset.DataSetInformation", attr |-> "wwwAddress", factory |-> "create_attribute_contact_dataset", tag |-> <<"", "WWWAddress">>, type |-> "str", validator |-> "None"],
      [cls |-> "contact_dataset.DataSetInformation", attr |-> "centralContactPoints", factory |-> "create_attribute_list_contact_dataset", tag |-> <<"", "centralContactPoint">>, type |-> "str", validator |-> "None"],
      [cls |-> "contact_dataset.DataSetInformation", attr |-> "contactDescriptionOrComments", factory |-> "create_attribute_list_contact_dataset", tag |-> <<"", "contactDescriptionOrComment">>, type |-> "str", validator |-> "None"],
      [cls |-> "contact_dataset.DataSetInformation", attr |-> "classificationInformation", factory |-> "get_element", tag |-> <<"", "classificationInformation">>, type |-> "common.ClassificationInformation", validator |-> "None"],
      [cls |-> "contact_dataset.DataSetInformation", attr |-> "referenceToContact", factory |-> "get_element_list", tag |-> <<"", "referenceToContact">>, type |-> "common.GlobalReference", validator |-> "None"],
      [cls |-> "contact_dataset.DataSetInformation", attr |-> "referenceToLogo", factory |-> "get_element", tag |-> <<"", "referenceToLogo">>, type |-> "common.GlobalReference", validator |-> "None"],
      [cls |-> "contact_dataset.PublicationAndOwnership", attr |-> "referenceToOwnershipOfDataSet", factory |-> "get_element", tag |-> <<"common", "referenceToOwnershipOfDataSet">>, type |-> "common.GlobalReference", validator |-> "None"] }

\* source_dataset.py: the classes the module defines, each with its base classes in declaration order.
SourceClasses ==
    { [id |-> "source_dataset.SourceDataSet", bases |-> <<"etree.ElementBase">>],
      [id |-> "source_dataset.SourceInformation", bases |-> <<"etree.ElementBase">>],
      [id |-> "source_dataset.AdministrativeInformation", bases |-> <<"etree.ElementBase">>],
      [id |-> "source_dataset.DataSetInformation", bases |-> <<"etree.ElementBase">>],
      [id |-> "source_dataset.DataEntryBy", bases |-> <<"common.DataEntryByGroup1">>],
      [id |-> "source_dataset.PublicationAndOwnership", bases |-> <<"common.PublicationAndOwnershipGroup1">>],
      [id |-> "source_dataset.ReferenceToDigitalFile", bases |-> <<"etree.ElementBase">>] }

\* source_dataset.py: the accessors each class declares itself. factory is the helper (helpers.py) or
\* lxmlh function that builds it, tag <<prefix, local>> stands for "prefix:local" ("local" when
\* the prefix is empty), type is the factory's type argument or the class of the return annotation.
SourceAccessors ==
    { [cls |-> "source_dataset.SourceDataSet", attr |-> "version", factory |-> "create_attribute_source_dataset", tag |-> <<"", "version">>, type |-> "str", validator |-> "None"],
      [cls |-> "source_dataset.SourceDataSet", attr |-> "sourceInformation", factory |-> "get_element", tag |-> <<"", "sourceInformation">>, type |-> "source_dataset.SourceInformation", validator |-> "None"],
      [cls |-> "source_dataset.SourceDataSet", attr |-> "administrativeInformation", factory |-> "get_element", tag |-> <<"", "administrativeInformation">>, type |-> "source_dataset.AdministrativeInformation", validator |-> "None"],
      [cls |-> "source_dataset.SourceInformation", attr |-> "dataSetInformation", factory |-> "get_element", tag |-> <<"", "dataSetInformation">>, type |-> "source_dataset.DataSetInformation", validator |-> "None"],
      [cls |-> "source_dataset.AdministrativeInformation", attr |-> "dataEntryBy", factory |-> "get_element", tag |-> <<"", "dataEntryBy">>, type |-> "source_dataset.DataEntryBy", validator |-> "None"],
      [cls |-> "source_dataset.AdministrativeInformation", attr |-> "publicationAndOwnership", factory |-> "get_element", tag |-> <<"", "publicationAndOwnership">>, type |-> "source_dataset.PublicationAndOwnership", validator |-> "None"],
      [cls |-> "source_dataset.DataSetInformation", attr |-> "commonUUID", factory |-> "create_attribute_source_dataset", tag |-> <<"common", "UUID">>, type |-> "str", validator |-> "None"],
      [cls |-> "source_dataset.DataSetInformation", attr |-> "shortNames", factory |-> "create_attribute_list_source_dataset", tag |-> <<"common", "shortName">>, type |-> "str", validator |-> "None"],
      [cls |-> "source_dataset.DataSetInformation", attr |-> "sourceCitation", factory |-> "create_attribute_source_dataset", tag |-> <<"", "sourceCitation">>, type |-> "str", validator |-> "None"],
      [cls |-> "source_dataset.DataSetInformation", attr |-> "publicationType", factory |-> "create_attribute_source_dataset", tag |-> <<"", "publicationType">>, type |-> "str", validator |-> "None"],
      [cls |-> "source_dataset.DataSetInformation", attr |-> "sourceDescriptionOrComments", factory |-> "create_attribute_list_source_dataset", tag |-> <<"", "sourceDescriptionOrComment">>, type |-> "str", validator |-> "None"],
      [cls |-> "source_dataset.DataSetInformation", attr |-> "classificationInformation", factory |-> "get_element", tag |-> <<"", "classificationInformation">>, type |-> "common.ClassificationInformation", validator |-> "None"],
      [cls |-> "source_dataset.DataSetInformation", attr |-> "referenceToDigitalFiles", factory |-> "get_element_list", tag |-> <<"", "referenceToDigitalFile">>, type |-> "source_dataset.ReferenceToDigitalFile", validator |-> "None"],
      [cls |-> "source_dataset.DataSetInformation", attr |-> "referenceToContact", factory |-> "get_element_list", tag |-> <<"", "referenceToContact">>, type |-> "common.GlobalReference", validator |-> "None"],
      [cls |-> "source_dataset.DataSetInformation", attr |-> "referenceToLogo", factory |-> "get_element", tag |-> <<"", "referenceToLogo">>, type |-> "common.GlobalReference", validator |-> "None"],
      [cls |-> "source_dataset.PublicationAndOwnership", attr |-> "referenceToOwnershipOfDataSet", factory |-> "get_element", tag |-> <<"common", "referenceToOwnershipOfDataSet">>, type |-> "common.GlobalReference", validator |-> "None"],
      [cls |-> "source_dataset.ReferenceToDigitalFile", attr |-> "uri", factory |-> "create_attribute_source_dataset", tag |-> <<"", "uri">>, type |-> "str", validator |-> "None"] }

----------------------------------------------------------------------------
\* The lookup functions of core.py.

\* Mutant of _check_common_lookup: a name the shared table lacks gets the plain
\* element class instead of None.
_check_common_lookup_generic(name) ==
    IF name \in DOMAIN COMMON_LOOK_UP THEN COMMON_LOOK_UP[name] ELSE GenericElement

\* Mutant of _check_common_lookup: the shared table has lost "processInformation".
_check_common_lookup_no_processInformation(name) ==
    IF name \in DOMAIN COMMON_LOOK_UP \ {"processInformation"} THEN COMMON_LOOK_UP[name] ELSE None

\* Mutant of _check_common_lookup: "compliance" gives the partial class ComplianceGroup.
_check_common_lookup_group(name) ==
    IF name = "compliance" THEN "common.ComplianceGroup"
    ELSE IF name \in DOMAIN COMMON_LOOK_UP THEN COMMON_LOOK_UP[name] ELSE None

\* core.py _check_common_lookup: COMMON_LOOK_UP[name], None on KeyError.
_check_common_lookup(name) ==
    IF name \in DOMAIN COMMON_LOOK_UP THEN COMMON_LOOK_UP[name] ELSE None

\* Mutant of ProcessDatasetLookup: the shared table is consulted first.
ProcessDatasetLookup_shared_first(name) ==
    IF name \in DOMAIN COMMON_LOOK_UP THEN COMMON_LOOK_UP[name]
    ELSE IF name \in DOMAIN ProcessLookupMap THEN ProcessLookupMap[name] ELSE None

\* core.py ProcessDatasetLookup.lookup: lookupMap[name], the shared table on KeyError.
ProcessDatasetLookup(name) ==
    IF name \in DOMAIN ProcessLookupMap THEN ProcessLookupMap[name]
    ELSE _check_common_lookup(name)

\* Mutant of FlowDatasetLookup: its private entry for "classificationInformation" is
\* the one the other kinds have.
FlowDatasetLookup_classification(name) ==
    IF name = "classificationInformation" THEN "common.ClassificationInformation"
    ELSE IF name \in DOMAIN FlowLookupMap THEN FlowLookupMap[name]
    ELSE IF name \in DOMAIN COMMON_LOOK_UP THEN COMMON_LOOK_UP[name] ELSE None

\* core.py FlowDatasetLookup.lookup
FlowDatasetLookup(name) ==
    IF name \in DOMAIN FlowLookupMap THEN FlowLookupMap[name]
    ELSE _check_common_lookup(name)

\* core.py FlowPropertyDatasetLookup.lookup
FlowPropertyDatasetLookup(name) ==
    IF name \in DOMAIN FlowPropertyLookupMap THEN FlowPropertyLookupMap[name]
    ELSE _check_common_lookup(name)

\* core.py UnitGroupDatasetLookup.lookup
UnitGroupDatasetLookup(name) ==
    IF name \in DOMAIN UnitGroupLookupMap THEN UnitGroupLookupMap[name]
    ELSE _check_common_lookup(name)

\* Mutant of ContactDatasetLookup: it reads the Source table.
ContactDatasetLookup_source_table(name) ==
    IF name \in DOMAIN SourceLookupMap THEN SourceLookupMap[name]
    ELSE IF name \in DOMAIN COMMON_LOOK_UP THEN COMMON_LOOK_UP[name] ELSE None

\* core.py ContactDatasetLookup.lookup
ContactDatasetLookup(name) ==
    IF name \in DOMAIN ContactLookupMap THEN ContactLookupMap[name]
    ELSE _check_common_lookup(name)

\* Mutant of SourceDatasetLookup: no fall back to the shared table.
SourceDatasetLookup_no_fallback(name) ==
    IF name \in DOMAIN SourceLookupMap THEN SourceLookupMap[name] ELSE None

\* core.py SourceDatasetLookup.lookup
SourceDatasetLookup(name) ==
    IF name \in DOMAIN SourceLookupMap THEN SourceLookupMap[name]
    ELSE _check_common_lookup(name)

\* The six dataset kinds.
Kinds == {"Process", "Flow", "FlowProperty", "UnitGroup", "Contact", "Source"}

\* The private table of each kind (the lookupMap of its lookup class).
LookupMap(K) ==
    CASE K = "Process"      -> ProcessLookupMap
      [] K = "Flow"         -> FlowLookupMap
      [] K = "FlowProperty" -> FlowPropertyLookupMap
      [] K = "UnitGroup"    -> UnitGroupLookupMap
      [] K = "Contact"      -> ContactLookupMap
      [] K = "Source"       -> SourceLookupMap

\* The lookup each kind's parse operations hand to the engine
\* (parse_file_process_dataset passes ProcessDatasetLookup(), and so on).
Resolver(K, name) ==
    CASE K = "Process"      -> ProcessDatasetLookup(name)
      [] K = "Flow"         -> FlowDatasetLookup(name)
      [] K = "FlowProperty" -> FlowPropertyDatasetLookup(name)
      [] K = "UnitGroup"    -> UnitGroupDatasetLookup(name)
      [] K = "Contact"      -> ContactDatasetLookup(name)
      [] K = "Source"       -> SourceDatasetLookup(name)

\* The class each parse operation names as its return type.
RootClass(K) ==
    CASE K = "Process"      -> "process_dataset.ProcessDataSet"
      [] K = "Flow"         -> "flow_dataset.FlowDataSet"
      [] K = "FlowProperty" -> "flow_property_dataset.FlowPropertyDataSet"
      [] K = "UnitGroup"    -> "unit_group_dataset.UnitGroupDataSet"
      [] K = "Contact"      -> "contact_dataset.ContactDataSet"
      [] K = "Source"       -> "source_dataset.SourceDataSet"

----------------------------------------------------------------------------
\* The class vocabulary.

AllClasses ==
    CommonClasses \cup ProcessClasses \cup FlowClasses \cup FlowPropertyClasses
        \cup UnitGroupClasses \cup ContactClasses \cup SourceClasses

AllAccessors ==
    CommonAccessors \cup ProcessAccessors \cup FlowAccessors \cup FlowPropertyAccessors
        \cup UnitGroupAccessors \cup ContactAccessors \cup SourceAccessors

ClassIds == {c.id : c \in AllClasses}

\* The base classes of a class statement, in declaration order.
Bases(c) == (CHOOSE r \in AllClasses : r.id = c).bases

\* Python's method resolution order of a wrapper class, etree.ElementBase left out
\* (every base of the vocabulary derives from it directly, so the order is the class
\* followed by its bases, left to right).
RECURSIVE MroFrom(_, _)
MroFrom(bases, i) ==
    IF i > Len(bases) THEN <<>>
    ELSE IF bases[i] = ElementBase THEN MroFrom(bases, i + 1)
    ELSE <<bases[i]>> \o MroFrom(Bases(bases[i]), 1) \o MroFrom(bases, i + 1)

Mro(c) == IF c \in ClassIds THEN <<c>> \o MroFrom(Bases(c), 1) ELSE <<>>

\* isinstance(x, c) for an x whose class is cls.
IsInstance(cls, c) == \E i \in 1..Len(Mro(cls)) : Mro(cls)[i] = c

\* Mutant of Accessors: only the accessors the class itself declares, none inherited.
Accessors_own_only(c) == {a \in AllAccessors : a.cls = c}

\* Attribute lookup on an instance of class c: the accessors c declares or inherits;
\* for one attribute name, the declaration of the first class of the MRO wins.
Accessors(c) ==
    LET mro == Mro(c)
        Declares(k, attr) == \E b \in AllAccessors : b.cls = k /\ b.attr = attr
    IN {a \in AllAccessors :
          \E i \in 1..Len(mro) :
              /\ mro[i] = a.cls
              /\ \A j \in 1..(i - 1) : ~Declares(mro[j], a.attr)}

\* The accessors of every class, and of the plain element class (none), computed once.
ClassAccessors == [c \in ClassIds \cup {GenericElement} |-> Accessors(c)]

\* The local name of a tag "prefix:local": what the engine passes to lookup() as name.
LocalName(tag) == tag[2]

----------------------------------------------------------------------------
\* Documents.  An element is [tag, parent]: parent is the index of its parent element,
\* 0 for the root; siblings are ordered by index.

\* Number of elements of a document, at most.
MaxElems == 3

RootTags ==
    { <<"", "processDataSet">>, <<"", "flowDataSet">>, <<"", "flowPropertyDataSet">>,
      <<"", "unitGroupDataSet">>, <<"", "contactDataSet">>, <<"", "sourceDataSet">> }

\* Tags of the elements below the root: tags the kinds type differently, a shared tag,
\* the tag of a text element and a tag no table knows.
InnerTags ==
    { <<"", "dataSetInformation">>, <<"", "classificationInformation">>,
      <<"common", "classification">>, <<"", "compliance">>, <<"common", "UUID">>,
      <<"", "undefinedTag">> }

DocTags == RootTags \cup InnerTags

RECURSIVE TreesOfLen(_)
TreesOfLen(n) ==
    IF n = 1 THEN {<<[tag |-> t, parent |-> 0]>> : t \in DocTags}
    ELSE {Append(d, [tag |-> t, parent |-> p]) :
            d \in TreesOfLen(n - 1), t \in InnerTags, p \in 1..(n - 1)}

\* Number of member results of a directory or zip parse, at most.
MaxMembers == 2

\* The well-formed documents.
Docs == UNION {TreesOfLen(n) : n \in 1..MaxElems}

\* Input that is not well-formed XML: it has no element tree.
MalformedDoc == <<>>

\* Every name a lookup is called with: the keys of the tables, the local names of
\* the vocabulary's accessor tags and a name nothing defines.
TagNames ==
    DOMAIN COMMON_LOOK_UP \cup UNION {DOMAIN LookupMap(K) : K \in Kinds}
        \cup {LocalName(a.tag) : a \in AllAccessors} \cup {"undefinedTag"}

----------------------------------------------------------------------------
\* The Defaults class (config.py) and the configuration files it loads.

\* The class attribute of Defaults that holds kind K's schema path.
SchemaKey(K) ==
    CASE K = "Process"      -> "SCHEMA_PROCESS_DATASET"
      [] K = "Flow"         -> "SCHEMA_FLOW_DATASET"
      [] K = "FlowProperty" -> "SCHEMA_FLOW_PROPERTY_DATASET"
      [] K = "UnitGroup"    -> "SCHEMA_UNIT_GROUP_DATASET"
      [] K = "Contact"      -> "SCHEMA_CONTACT_DATASET"
      [] K = "Source"       -> "SCHEMA_SOURCE_DATASET"

\* The bundled schema of each kind, relative to SCHEMA_DIR.
BundledSchema(K) ==
    CASE K = "Process"      -> "schemas/ILCD_ProcessDataSet.xsd"
      [] K = "Flow"         -> "schemas/ILCD_FlowDataSet.xsd"
      [] K = "FlowProperty" -> "schemas/ILCD_FlowPropertyDataSet.xsd"
      [] K = "UnitGroup"    -> "schemas/ILCD_UnitGroupDataSet.xsd"
      [] K = "Contact"      -> "schemas/ILCD_ContactDataSet.xsd"
      [] K = "Source"       -> "schemas/ILCD_SourceDataSet.xsd"

\* Defaults.STATIC_DEFAULTS and Defaults.DYNAMIC_DEFAULTS as the class body sets them.
STATIC_DEFAULTS ==
    [ Classification     |-> [name |-> "ILCD"],
      FlowCategorization |-> [name |-> "ILCD"],
      ProcessDataset     |-> [metaDataOnly |-> "false"] ]

DYNAMIC_DEFAULTS == <<>>

\* The value of a class attribute: a Python object, a str or a dict.
Str(s) == [type |-> "str", value |-> s]

Dict(d) == [type |-> "dict", value |-> d]

\* The class attributes of Defaults after the class body has run.
DefaultsClass ==
    [a \in {SchemaKey(K) : K \in Kinds} |->
        Str(BundledSchema(CHOOSE K \in Kinds : SchemaKey(K) = a))]
        @@ ("STATIC_DEFAULTS" :> Dict(STATIC_DEFAULTS))
        @@ ("DYNAMIC_DEFAULTS" :> Dict(DYNAMIC_DEFAULTS))

\* The configuration files loaded: a file has a [parameters] section or not, and
\* sections named after element types.
ConfigKinds == {"Process"}

ConfigPaths == {"custom/ILCD.xsd"}

ConfigParameters ==
    UNION {[{SchemaKey(K) : K \in Ks} -> ConfigPaths] : Ks \in SUBSET ConfigKinds}

ConfigSections == { <<>>, "Classification" :> ("name" :> "EPD") }

\* A path that names no file, or a file that cannot be opened.
MissingFile ==
    [exists |-> FALSE, hasParameters |-> FALSE, parameters |-> <<>>, sections |-> <<>>]

ExistingFiles(Parameters, Sections) ==
    {[exists |-> TRUE, hasParameters |-> TRUE, parameters |-> p, sections |-> sec] :
        p \in Parameters, sec \in Sections}
    \cup {[exists |-> TRUE, hasParameters |-> FALSE, parameters |-> <<>>, sections |-> sec] :
            sec \in Sections}

ConfigFiles == ExistingFiles(ConfigParameters, ConfigSections) \cup {MissingFile}

\* Files whose [parameters] section also names attributes that hold no schema path,
\* and that give a schema path one of two values.
WideKeys == {"SCHEMA_PROCESS_DATASET", "SCHEMA_FLOW_DATASET", "STATIC_DEFAULTS"}

WideValues == {"custom/ILCD.xsd", "other/ILCD.xsd"}

WideParameters == UNION {[Ks -> WideValues] : Ks \in SUBSET WideKeys}

WideSections ==
    { <<>>, "Classification" :> ("name" :> "EPD"),
      "FlowCategorization" :> ("name" :> "EPD") }

WideConfigFiles == ExistingFiles(WideParameters, WideSections) \cup {MissingFile}

\* helpers.py: the kind whose schema path a factory wrapper passes on, by its name.
FactoryKind(factory) ==
    CASE factory \in { "create_attribute_process_dataset",
                       "create_element_text_process_dataset",
                       "create_attribute_list_process_dataset" }       -> "Process"
      [] factory \in { "create_attribute_flow_dataset",
                       "create_element_text_flow_dataset",
                       "create_attribute_list_flow_dataset" }          -> "Flow"
      [] factory \in { "create_attribute_flow_property_dataset",
                       "create_attribute_list_flow_property_dataset" } -> "FlowProperty"
      [] factory \in { "create_attribute_unit_group_dataset",
                       "create_element_text_unit_group_dataset",
                       "create_attribute_list_unit_group_dataset" }    -> "UnitGroup"
      [] factory \in { "create_attribute_contact_dataset",
                       "create_element_text_contact_dataset",
                       "create_attribute_list_contact_dataset" }       -> "Contact"
      [] factory \in { "create_attribute_source_dataset",
                       "create_attribute_list_source_dataset" }        -> "Source"
      [] OTHER                                                        -> None

\* The accessors a factory wrapper of helpers.py produced: those that carry a schema.
SchemaAccessors == {a \in AllAccessors : FactoryKind(a.factory) # None}

\* The accessors kind K's module declares.
ModuleAccessors(K) ==
    CASE K = "Process"      -> ProcessAccessors
      [] K = "Flow"         -> FlowAccessors
      [] K = "FlowProperty" -> FlowPropertyAccessors
      [] K = "UnitGroup"    -> UnitGroupAccessors
      [] K = "Contact"      -> ContactAccessors
      [] K = "Source"       -> SourceAccessors

\* No configuration file has been loaded.
NoConfig == <<>>

\* The valid_suffixes argument of the directory and zip functions: None, or <<list>>.
NoSuffixes == <<>>

\* The members of the directories and archives listed: each has a suffix and the root
\* tag of its document.
MemberSuffixes == {".xml", ".ilcd", ".txt"}

ListingMembers == {[suffix |-> x, tag |-> <<"", "processDataSet">>] : x \in MemberSuffixes}

\* The valid_suffixes a caller passes: none, an allow-list of its own, an empty one.
SuffixArgs == {NoSuffixes, << <<".txt", ".xml">> >>, << <<>> >>}

\* The arguments lxml passes lookup() besides the name.
NodeTypes == {"element", "comment"}

Documents == {"document"}

Namespaces == {None, "http://lca.jrc.it/ILCD/Common"}

----------------------------------------------------------------------------
VARIABLES
    pc,          \* "idle", "lookup" (lookups of one name in progress), "parsed", "failed", "batch",
                 \* "validated", "saved", "imported"
    lookupName,  \* the name the lookups in progress were called with
    resolved,    \* resolver -> what its lookup returned for lookupName
    kind,        \* the kind whose parse operation was called
    doc,         \* the parsed document
    typed,       \* element index -> the class backing the element
    view,        \* the element the caller holds a typed view of, 0 for None
    found,       \* the list a repeated child accessor returned (element indices)
    lastAccess,  \* the child accessor read last: <<class declaring it, attribute>>, <<None, None>> for none
    results,     \* the member results of a directory or zip parse: [tag, cls] of each root
    defaults,    \* the class attributes of Defaults: attribute name -> value
    config,      \* the configuration load made last, <<>> for none: <<[file, before]>>, the
                 \* file loaded and the schema path of each kind before the load
    again,       \* since the first lookup of the name in progress: was a configuration loaded,
                 \* and the lookup repeated last: <<[resolver, result, afterReload]>>, <<>> for none
    call,        \* the dataset-level operation called last: [op, schema, suffixes, members],
                 \* the function, the schema path and the allow-list it handed the engine,
                 \* and the suffixes of the members of the directory or archive it was given
    attrs,       \* element index -> the attributes of the element of the tree held
    saved        \* what save_ilcd_file handed the writer and what was written, <<>> for none

vars == <<pc, lookupName, resolved, kind, doc, typed, view, found, lastAccess, results,
          defaults, config, again, call, attrs, saved>>

\* Nothing has happened since the first lookup.
NoRepeat == [reloaded |-> FALSE, repeated |-> <<>>]

\* No dataset-level operation has been called.
NoCall == [op |-> None, schema |-> None, suffixes |-> <<>>, members |-> <<>>,
           given |-> NoSuffixes]

\* The resolvers: the six kinds and the shared-table check on its own.
Resolvers == Kinds \cup {"Common"}

Init ==
    /\ pc = "idle"
    /\ lookupName = None
    /\ resolved = <<>>
    /\ kind = None
    /\ doc = <<>>
    /\ typed = <<>>
    /\ view = 0
    /\ found = <<>>
    /\ lastAccess = <<None, None>>
    /\ results = <<>>
    /\ defaults = DefaultsClass
    /\ config = NoConfig
    /\ again = NoRepeat
    /\ call = NoCall
    /\ attrs = <<>>
    /\ saved = <<>>

\* The names a further lookup may be called with: any name when no lookups are in
\* progress, the name in progress otherwise.
NamesToLookUp == IF pc = "idle" THEN TagNames ELSE {lookupName}

\* Mutant of lookup: only element nodes are given a class.
lookup_elements_only(K, node_type, document, namespace, name) ==
    IF node_type = "element" THEN Resolver(K, name) ELSE None

\* <Kind>DatasetLookup().lookup(unused_node_type, unused_document, unused_namespace,
\* name): the table is built in the call, only name is read.
lookup(K, node_type, document, namespace, name) == Resolver(K, name)

\* <Kind>DatasetLookup().lookup(node_type, document, namespace, name), for a kind not
\* yet asked about the name in progress.
CallLookup ==
    /\ pc \in {"idle", "lookup"}
    /\ \E K \in Kinds \ DOMAIN resolved, name \in NamesToLookUp :
          \E t \in NodeTypes, d \in Documents, ns \in Namespaces :
              /\ lookupName' = name
              /\ resolved' = (K :> lookup(K, t, d, ns, name)) @@ resolved
    /\ pc' = "lookup"
    /\ UNCHANGED <<kind, doc, typed, view, found, lastAccess, results>>
    /\ UNCHANGED <<defaults, config, again, call, attrs, saved>>

\* The first lookup of a name.
CallFirstLookup == pc = "idle" /\ CallLookup

\* A lookup called again with the name in progress, on a resolver already asked, with
\* any node type, document and namespace.
CallLookupAgain ==
    /\ pc = "lookup"
    /\ \E R \in DOMAIN resolved :
          \E t \in NodeTypes, d \in Documents, ns \in Namespaces :
              again' = [again EXCEPT !.repeated =
                          << [ resolver    |-> R,
                               result      |-> IF R \in Kinds
                                               THEN lookup(R, t, d, ns, lookupName)
                                               ELSE _check_common_lookup(lookupName),
                               afterReload |-> again.reloaded ] >>]
    /\ UNCHANGED <<pc, lookupName, resolved, kind, doc, typed, view, found, lastAccess, results>>
    /\ UNCHANGED <<defaults, config, call, attrs, saved>>

\* _check_common_lookup(name) called on its own.
CallCheckCommonLookup ==
    /\ pc \in {"idle", "lookup"}
    /\ "Common" \notin DOMAIN resolved
    /\ \E name \in NamesToLookUp :
          /\ lookupName' = name
          /\ resolved' = ("Common" :> _check_common_lookup(name)) @@ resolved
    /\ pc' = "lookup"
    /\ UNCHANGED <<kind, doc, typed, view, found, lastAccess, results>>
    /\ UNCHANGED <<defaults, config, again, call, attrs, saved>>

\* The first lookup of a name, by the shared check.
CallFirstCheckCommonLookup == pc = "idle" /\ CallCheckCommonLookup

\* Mutant of ElementClass: no lookup is installed, every element is a plain element.
ElementClass_plain(K, tag) == GenericElement

\* Mutant of ElementClass: every kind's elements are typed by the Flow lookup.
ElementClass_flow_lookup(K, tag) ==
    LET cls == FlowDatasetLookup(LocalName(tag))
    IN IF cls # None THEN cls ELSE GenericElement

\* Mutant of BoundSchema: the wrapper's schema path is read each time the accessor is
\* used.
BoundSchema_live(a) == defaults[SchemaKey(FactoryKind(a.factory))].value

\* The schema path an accessor is bound to: the wrapper passes the value
\* Defaults.SCHEMA_<KIND>_DATASET has when the class body that calls it runs, which is
\* when the package is imported, before any config_defaults call can be made.
BoundSchema(a) == DefaultsClass[SchemaKey(FactoryKind(a.factory))].value

\* Mutant of SchemaPath: every kind reads the Process schema path.
SchemaPath_process(K) == defaults["SCHEMA_PROCESS_DATASET"].value

\* Mutant of SchemaPath: the path bound when the module was imported.
SchemaPath_bundled(K) == BundledSchema(K)

\* Defaults.SCHEMA_<KIND>_DATASET, read when a dataset-level operation is called.
SchemaPath(K) == defaults[SchemaKey(K)].value

\* The attributes an element of a document carries, none when it names none.
ElementAttrs(e) == IF "attrs" \in DOMAIN e THEN e.attrs ELSE <<>>

\* The class backing an element under kind K's lookup: the class lookup() returns,
\* the fallback's plain element class when it returns None.
ElementClass(K, tag) ==
    LET cls == Resolver(K, LocalName(tag))
    IN IF cls # None THEN cls ELSE GenericElement

\* parse_file_<kind>_dataset(file): parse_file(file, Defaults.SCHEMA_<KIND>_DATASET,
\* <Kind>DatasetLookup()).  accepted is the engine's verdict on the document; input
\* that is not well-formed is never accepted.  On success the caller holds the root.
ParseFileFrom(D) ==
    /\ pc = "idle"
    /\ \E K \in Kinds, d \in D \cup {MalformedDoc}, accepted \in BOOLEAN :
          /\ accepted => d # MalformedDoc
          /\ kind' = K
          /\ call' = [op |-> "parse_file", schema |-> SchemaPath(K),
                       suffixes |-> <<>>, members |-> <<>>,
                       given |-> NoSuffixes]
          /\ IF accepted
             THEN /\ pc' = "parsed"
                  /\ doc' = d
                  /\ typed' = [i \in 1..Len(d) |-> ElementClass(K, d[i].tag)]
                  /\ attrs' = [i \in 1..Len(d) |-> ElementAttrs(d[i])]
                  /\ view' = 1
             ELSE /\ pc' = "failed"
                  /\ doc' = <<>>
                  /\ typed' = <<>>
                  /\ attrs' = <<>>
                  /\ view' = 0
    /\ found' = <<>>
    /\ lastAccess' = <<None, None>>
    /\ UNCHANGED <<lookupName, resolved, results, defaults, config, again, saved>>

ParseFile == ParseFileFrom(Docs)

\* Mutant of ValidSuffixes: the default allow-list has lost ".ilcd".
ValidSuffixes_xml_only(valid_suffixes) ==
    IF valid_suffixes = NoSuffixes THEN <<".xml">> ELSE valid_suffixes[1]

\* The allow-list a directory or zip function hands the engine:
\* if valid_suffixes is None: valid_suffixes = [".xml", ".ilcd"].
ValidSuffixes(valid_suffixes) ==
    IF valid_suffixes = NoSuffixes THEN <<".xml", ".ilcd">> ELSE valid_suffixes[1]

\* The suffixes of a list, as a set.
SuffixSet(suffixes) == {suffixes[i] : i \in 1..Len(suffixes)}

\* The members of a listing the engine takes up: those whose suffix is in the
\* allow-list, in the order of the listing.
RECURSIVE EligibleFrom(_, _, _)
EligibleFrom(members, allowed, i) ==
    IF i > Len(members) THEN <<>>
    ELSE IF members[i].suffix \in SuffixSet(allowed)
         THEN <<i>> \o EligibleFrom(members, allowed, i + 1)
         ELSE EligibleFrom(members, allowed, i + 1)

Eligible(members, allowed) == EligibleFrom(members, allowed, 1)

\* parse_directory_<kind>_dataset(dir_path, valid_suffixes) and
\* parse_zip_file_<kind>_dataset(file_path, valid_suffixes): parse_directory /
\* parse_zip_file with Defaults.SCHEMA_<KIND>_DATASET, <Kind>DatasetLookup() and the
\* allow-list.  The listing holds members the engine can parse; each result is the
\* member's place in the listing and its root under kind K's lookup.
ParseBatchOf(Members, Args) ==
    /\ pc = "idle"
    /\ \E K \in Kinds, n \in 1..MaxMembers, op \in {"parse_directory", "parse_zip_file"} :
          \E members \in [1..n -> Members], valid_suffixes \in Args :
              LET allowed  == ValidSuffixes(valid_suffixes)
                  eligible == Eligible(members, allowed)
              IN /\ kind' = K
                 /\ results' = [j \in 1..Len(eligible) |->
                                  [ tag    |-> members[eligible[j]].tag,
                                    cls    |-> ElementClass(K, members[eligible[j]].tag),
                                    member |-> eligible[j] ]]
                 /\ call' = [ op |-> op, schema |-> SchemaPath(K), suffixes |-> allowed,
                              members |-> [i \in 1..n |-> members[i].suffix],
                              given |-> valid_suffixes ]
    /\ pc' = "batch"
    /\ UNCHANGED <<lookupName, resolved, doc, typed, view, found, lastAccess>>
    /\ UNCHANGED <<defaults, config, again, attrs, saved>>

\* A directory or archive of .xml members with any root, parsed with the default
\* allow-list.
ParseBatch ==
    ParseBatchOf({[suffix |-> ".xml", tag |-> t] : t \in DocTags}, {NoSuffixes})

\* A directory or archive with members of several suffixes, parsed with and without an
\* allow-list of the caller.
ParseListing == ParseBatchOf(ListingMembers, SuffixArgs)

\* What the engine's validation says of a document: None, or a list of errors.
Verdicts == {None, "errors"}

\* validate_file_<kind>_dataset(file): validate_file(file,
\* Defaults.SCHEMA_<KIND>_DATASET); what it returns is the engine's verdict.
ValidateFile ==
    /\ pc = "idle"
    /\ \E K \in Kinds, v \in Verdicts :
          /\ kind' = K
          /\ results' = << [member |-> 1, verdict |-> v] >>
          /\ call' = [op |-> "validate_file", schema |-> SchemaPath(K),
                       suffixes |-> <<>>, members |-> <<>>,
                       given |-> NoSuffixes]
    /\ pc' = "validated"
    /\ UNCHANGED <<lookupName, resolved, doc, typed, view, found, lastAccess>>
    /\ UNCHANGED <<defaults, config, again, attrs, saved>>

\* validate_directory_<kind>_dataset(dir_path, valid_suffixes) and
\* validate_zip_file_<kind>_dataset(file_path, valid_suffixes): validate_directory /
\* validate_zip_file with Defaults.SCHEMA_<KIND>_DATASET and the allow-list.
ValidateListing ==
    /\ pc = "idle"
    /\ \E K \in Kinds, n \in 1..MaxMembers, op \in {"validate_directory", "validate_zip_file"} :
          \E members \in [1..n -> ListingMembers], valid_suffixes \in SuffixArgs :
              LET allowed  == ValidSuffixes(valid_suffixes)
                  eligible == Eligible(members, allowed)
              IN /\ kind' = K
                 /\ \E verdicts \in [1..Len(eligible) -> Verdicts] :
                       results' = [j \in 1..Len(eligible) |->
                                     [member |-> eligible[j], verdict |-> verdicts[j]]]
                 /\ call' = [ op |-> op, schema |-> SchemaPath(K), suffixes |-> allowed,
                              members |-> [i \in 1..n |-> members[i].suffix],
                              given |-> valid_suffixes ]
    /\ pc' = "validated"
    /\ UNCHANGED <<lookupName, resolved, doc, typed, view, found, lastAccess>>
    /\ UNCHANGED <<defaults, config, again, attrs, saved>>

\* The documents the save operation is exercised on: a root, an element below it
\* (one a defaults table may name, or one each kind types with a class of its own),
\* and the attributes each of them carries in the file.
SampleRoots == {<<"", "processDataSet">>, <<"", "flowDataSet">>}

SampleChildren ==
    { <<"common", "classification">>, <<"common", "elementaryFlowCategorization">>,
      <<"", "dataSetInformation">> }

SampleDocs ==
    { << [tag |-> r, parent |-> 0, attrs |-> ra], [tag |-> c, parent |-> 1, attrs |-> ca] >> :
        r \in SampleRoots, ra \in {<<>>, [metaDataOnly |-> "true"]},
        c \in SampleChildren, ca \in {<<>>, [name |-> "EPD"]} }

\* parse_file_<kind>_dataset on a document of SampleDocs.
ParseSampleFile == ParseFileFrom(SampleDocs)

\* The modules of the package that define element classes.
ModuleNames ==
    { "common", "process_dataset", "flow_dataset", "flow_property_dataset",
      "unit_group_dataset", "contact_dataset", "source_dataset" }

\* Class cls is the class named name in one of the package's modules.
HasClassName(cls, name) == \E m \in ModuleNames : cls = m \o "." \o name

\* No defaults table is handed to the writer (None).
NoTable == <<>>

\* Mutant of SaveDefaults: the tables are handed over whatever fill_defaults says.
SaveDefaults_always(fill_defaults) ==
    [ static  |-> <<defaults["STATIC_DEFAULTS"].value>>,
      dynamic |-> <<defaults["DYNAMIC_DEFAULTS"].value>> ]

\* The tables save_ilcd_file hands to save_file: None and None unless fill_defaults,
\* else Defaults.STATIC_DEFAULTS and Defaults.DYNAMIC_DEFAULTS.
SaveDefaults(fill_defaults) ==
    IF ~fill_defaults
    THEN [static |-> NoTable, dynamic |-> NoTable]
    ELSE [ static  |-> <<defaults["STATIC_DEFAULTS"].value>>,
           dynamic |-> <<defaults["DYNAMIC_DEFAULTS"].value>> ]

\* The entries of a defaults table that apply to an element of class cls: those filed
\* under the name of its class.
DefaultsFor(table, cls) ==
    LET names == {T \in DOMAIN table : HasClassName(cls, T)}
    IN IF names = {} THEN <<>> ELSE table[CHOOSE T \in names : TRUE]

\* The writer's use of a static defaults table: an attribute the table names for an
\* element's class and the element does not carry is set to the table's value; an
\* attribute the element carries is kept.  Without a table nothing is set.
FillDefaults(classes, at, static) ==
    IF static = NoTable THEN at
    ELSE [i \in DOMAIN at |-> at[i] @@ DefaultsFor(static[1], classes[i])]

\* What the writer puts in the file: the elements of the tree in document order, each
\* with the attributes it carries when it is written.
Serialize(d, at) ==
    [i \in DOMAIN d |-> [tag |-> d[i].tag, parent |-> d[i].parent, attrs |-> at[i]]]

\* Mutant of SaveFile: a save with fill_defaults empties the table it has used.
SaveFile_consuming_defaults ==
    /\ pc = "parsed"
    /\ \E fill_defaults \in BOOLEAN :
          LET tables == SaveDefaults(fill_defaults)
              filled == FillDefaults(typed, attrs, tables.static)
          IN /\ attrs' = filled
             /\ saved' = << [ fill_defaults |-> fill_defaults,
                              static  |-> tables.static,
                              dynamic |-> tables.dynamic,
                              before  |-> attrs,
                              content |-> Serialize(doc, filled) ] >>
             /\ defaults' = IF fill_defaults
                            THEN [defaults EXCEPT !["STATIC_DEFAULTS"] = Dict(<<>>)]
                            ELSE defaults
    /\ pc' = "saved"
    /\ UNCHANGED <<lookupName, resolved, kind, doc, typed, view, found, lastAccess>>
    /\ UNCHANGED <<results, config, again, call>>

\* save_ilcd_file(root, path, fill_defaults) on the root of the document held:
\* save_file(root, path, static_defaults, dynamic_defaults).  The defaults are filled
\* into the tree itself, which is then written.
SaveFile ==
    /\ pc = "parsed"
    /\ \E fill_defaults \in BOOLEAN :
          LET tables == SaveDefaults(fill_defaults)
              filled == FillDefaults(typed, attrs, tables.static)
          IN /\ attrs' = filled
             /\ saved' = << [ fill_defaults |-> fill_defaults,
                              static  |-> tables.static,
                              dynamic |-> tables.dynamic,
                              before  |-> attrs,
                              content |-> Serialize(doc, filled) ] >>
    /\ pc' = "saved"
    /\ UNCHANGED <<lookupName, resolved, kind, doc, typed, view, found, lastAccess>>
    /\ UNCHANGED <<results, defaults, config, again, call>>

\* The names pyilcd/__init__.py binds: the functions it imports from core,
\* get_version_tuple and __version__.
TopLevelNames ==
    { "parse_directory_flow_dataset", "parse_directory_flow_property_dataset",
      "parse_directory_process_dataset", "parse_file_flow_dataset",
      "parse_file_flow_property_dataset", "parse_file_process_dataset",
      "save_ilcd_file", "validate_file_flow_dataset",
      "validate_file_flow_property_dataset", "validate_file_process_dataset",
      "get_version_tuple", "__version__" }

\* The modules of the package, each importable from it by name.
Submodules ==
    ModuleNames \cup {"common", "config", "core", "helpers", "utils"}

\* The names test_core.py imports with "from pyilcd import (...)".
TestImports ==
    { "ContactDataSet", "FlowDataSet", "FlowPropertyDataSet", "ProcessDataSet",
      "SourceDataSet", "UnitGroupDataSet", "parse_directory_contact_dataset",
      "parse_directory_flow_dataset", "parse_directory_flow_property_dataset",
      "parse_directory_process_dataset", "parse_directory_source_dataset",
      "parse_directory_unit_group_dataset", "parse_file_process_dataset",
      "parse_zip_file_contact_dataset", "parse_zip_file_flow_dataset",
      "parse_zip_file_flow_property_dataset", "parse_zip_file_process_dataset",
      "parse_zip_file_source_dataset", "parse_zip_file_unit_group_dataset",
      "save_ilcd_file", "validate_directory_contact_dataset",
      "validate_directory_flow_dataset", "validate_directory_flow_property_dataset",
      "validate_directory_process_dataset", "validate_directory_source_dataset",
      "validate_directory_unit_group_dataset", "validate_file_contact_dataset",
      "validate_file_flow_dataset", "validate_file_flow_property_dataset",
      "validate_file_process_dataset", "validate_file_source_dataset",
      "validate_file_unit_group_dataset", "validate_zip_file_contact_dataset",
      "validate_zip_file_flow_dataset", "validate_zip_file_flow_property_dataset",
      "validate_zip_file_process_dataset", "validate_zip_file_source_dataset",
      "validate_zip_file_unit_group_dataset" }

\* from pyilcd import name: bound when the package defines the name or has a module of
\* that name, ImportError otherwise.
ImportName ==
    /\ pc = "idle"
    /\ \E name \in TestImports \cup TopLevelNames :
          results' = << [ name     |-> name,
                          imported |-> name \in TopLevelNames \cup Submodules ] >>
    /\ pc' = "imported"
    /\ UNCHANGED <<lookupName, resolved, kind, doc, typed, view, found, lastAccess>>
    /\ UNCHANGED <<defaults, config, again, call, attrs, saved>>

\* The children of element e with the given tag, in document order
\* (lxmlh get_element_list: findall).
RECURSIVE ChildrenFrom(_, _, _, _)
ChildrenFrom(d, e, tag, i) ==
    IF i > Len(d) THEN <<>>
    ELSE IF d[i].parent = e /\ d[i].tag = tag
         THEN <<i>> \o ChildrenFrom(d, e, tag, i + 1)
         ELSE ChildrenFrom(d, e, tag, i + 1)

Children(d, e, tag) == ChildrenFrom(d, e, tag, 1)

\* Mutant of GetElement: a single child accessor read where there is no such child
\* creates the child and returns it.
GetElement_creating ==
    /\ pc = "parsed"
    /\ view # 0
    /\ \E a \in ClassAccessors[typed[view]] :
          /\ a.factory = "get_element"
          /\ LET cs == Children(doc, view, a.tag)
             IN IF cs = <<>> /\ Len(doc) <= MaxElems
                THEN /\ doc' = Append(doc, [tag |-> a.tag, parent |-> view])
                     /\ typed' = Append(typed, ElementClass(kind, a.tag))
                     /\ attrs' = Append(attrs, <<>>)
                     /\ view' = Len(doc) + 1
                ELSE /\ view' = IF cs = <<>> THEN 0 ELSE cs[1]
                     /\ UNCHANGED <<doc, typed, attrs>>
          /\ lastAccess' = <<a.cls, a.attr>>
    /\ found' = <<>>
    /\ UNCHANGED <<pc, lookupName, resolved, kind, results>>
    /\ UNCHANGED <<defaults, config, again, call, saved>>

\* A single child accessor (a property returning get_element(self, tag)) read on the
\* view held: the first child with the tag, None when there is none.  The accessor
\* exists only on the class that backs the element.
GetElement ==
    /\ pc = "parsed"
    /\ view # 0
    /\ \E a \in ClassAccessors[typed[view]] :
          /\ a.factory = "get_element"
          /\ LET cs == Children(doc, view, a.tag)
             IN view' = IF cs = <<>> THEN 0 ELSE cs[1]
          /\ lastAccess' = <<a.cls, a.attr>>
    /\ found' = <<>>
    /\ UNCHANGED <<pc, lookupName, resolved, kind, doc, typed, results>>
    /\ UNCHANGED <<defaults, config, again, call, attrs, saved>>

\* A repeated child accessor (get_element_list(self, tag)) read on the view held.
GetElementList ==
    /\ pc = "parsed"
    /\ view # 0
    /\ \E a \in ClassAccessors[typed[view]] :
          /\ a.factory = "get_element_list"
          /\ found' = Children(doc, view, a.tag)
          /\ lastAccess' = <<a.cls, a.attr>>
    /\ UNCHANGED <<pc, lookupName, resolved, kind, doc, typed, view, results>>
    /\ UNCHANGED <<defaults, config, again, call, attrs, saved>>

\* The caller takes item i of the list returned (classifications[0] in the tests).
SelectItem ==
    /\ pc = "parsed"
    /\ \E i \in 1..Len(found) : view' = found[i]
    /\ found' = <<>>
    /\ UNCHANGED <<pc, lookupName, resolved, kind, doc, typed, lastAccess, results>>
    /\ UNCHANGED <<defaults, config, again, call, attrs, saved>>

\* The caller drops what it holds; the document goes with its last reference.
Release ==
    /\ pc # "idle"
    /\ pc' = "idle"
    /\ lookupName' = None
    /\ resolved' = <<>>
    /\ kind' = None
    /\ doc' = <<>>
    /\ typed' = <<>>
    /\ view' = 0
    /\ found' = <<>>
    /\ lastAccess' = <<None, None>>
    /\ results' = <<>>
    /\ again' = NoRepeat
    /\ call' = NoCall
    /\ attrs' = <<>>
    /\ saved' = <<>>
    /\ UNCHANGED <<defaults, config>>

\* Mutant of ReadConfig: a path that names no file reads as a file that resets the
\* Process schema path.
ReadConfig_missing_overrides(file) ==
    IF file.exists
    THEN [hasParameters |-> file.hasParameters, parameters |-> file.parameters,
          sections |-> file.sections]
    ELSE [hasParameters |-> TRUE, sections |-> <<>>,
          parameters |-> ("SCHEMA_PROCESS_DATASET" :> "")]

\* config.read(config_file): the sections of the file; a file that cannot be opened is
\* skipped and the parser stays empty.
ReadConfig(file) ==
    IF file.exists
    THEN [hasParameters |-> file.hasParameters, parameters |-> file.parameters,
          sections |-> file.sections]
    ELSE [hasParameters |-> FALSE, parameters |-> <<>>, sections |-> <<>>]

\* Defaults.config_defaults(config_file): every key of [parameters] becomes a class
\* attribute (setattr), then the sections other than "parameters", the parser's
\* DEFAULT section among them, are stored in the class attribute static_defaults.
ConfigDefaultsFrom(Files) ==
    /\ pc \in {"idle", "lookup"}
    /\ \E f \in Files :
          LET parsed         == ReadConfig(f)
              parameters     == [k \in DOMAIN parsed.parameters |->
                                    Str(parsed.parameters[k])]
              staticDefaults == parsed.sections @@ ("DEFAULT" :> <<>>)
          IN /\ defaults' = ("static_defaults" :> Dict(staticDefaults))
                                @@ (IF parsed.hasParameters THEN parameters ELSE <<>>)
                                @@ defaults
             /\ config' = << [ file   |-> f,
                              before |-> [K \in Kinds |-> SchemaPath(K)] ] >>
    /\ again' = [again EXCEPT !.reloaded = (pc = "lookup")]
    /\ UNCHANGED <<pc, lookupName, resolved, kind, doc, typed, view, found, lastAccess, results>>
    /\ UNCHANGED <<call, attrs, saved>>

ConfigDefaults == ConfigDefaultsFrom(ConfigFiles)

\* config_defaults on a file whose [parameters] section may name any class attribute.
ConfigDefaultsWide == ConfigDefaultsFrom(WideConfigFiles)

Next ==
    \/ CallLookup
    \/ CallCheckCommonLookup
    \/ ParseFile
    \/ ParseBatch
    \/ GetElement
    \/ GetElementList
    \/ SelectItem
    \/ Release

Spec == Init /\ [][Next]_vars

\* The dataset-level operations under a configuration that changes: configuration
\* loads, lookups before and after them, and the operations that read Defaults.
NextOps ==
    \/ ConfigDefaults
    \/ CallFirstLookup
    \/ CallFirstCheckCommonLookup
    \/ CallLookupAgain
    \/ ValidateFile
    \/ ValidateListing
    \/ ParseSampleFile
    \/ SaveFile
    \/ ImportName
    \/ ParseListing
    \/ Release

SpecOps == Init /\ [][NextOps]_vars

\* Configuration loads alone, from files of any content.
NextConfig == ConfigDefaultsWide

SpecConfig == Init /\ [][NextConfig]_vars

----------------------------------------------------------------------------
\* Claims.

\* What a lookup that raised LookupError would leave as its result.
LookupError == "LookupError"

\* The keys of the private table of a resolver; the shared check has none.
PrivateNames(R) == IF R \in Kinds THEN DOMAIN LookupMap(R) ELSE {}

\* A name is known to a resolver when its private table or the shared table has it.
Known(R, name) == name \in PrivateNames(R) \/ name \in DOMAIN COMMON_LOOK_UP

\* C1 as stated: every resolver (the six kinds and the shared check) asked for a name
\* that is in neither its private table nor the shared table fails with LookupError.
C1_UnknownTagRaises ==
    pc = "lookup" =>
        \A R \in DOMAIN resolved :
            ~Known(R, lookupName) => resolved[R] = LookupError

\* C1 amended: every resolver asked for a name that is in neither its private table
\* nor the shared table returns None: it does not raise and returns no class.
C1_UnknownTagReturnsNone ==
    pc = "lookup" =>
        \A R \in DOMAIN resolved :
            ~Known(R, lookupName) => resolved[R] = None

\* C1 witness: all seven resolvers have been asked for "undefinedTag".
C1_Witness ==
    /\ pc = "lookup"
    /\ lookupName = "undefinedTag"
    /\ DOMAIN resolved = Resolvers
    /\ \A R \in Resolvers : ~Known(R, "undefinedTag")

\* The classes a kind's tables can give: the values of its private and of the shared table.
TableClasses(K) ==
    {LookupMap(K)[n] : n \in DOMAIN LookupMap(K)}
        \cup {COMMON_LOOK_UP[n] : n \in DOMAIN COMMON_LOOK_UP}

\* C2 as stated: after a successful parse of kind K every element is backed by a class of
\* K's private table or of the shared table (so no element has a tag outside both).
C2_EveryElementFromTables ==
    pc = "parsed" =>
        \A i \in 1..Len(doc) :
            /\ Known(kind, LocalName(doc[i].tag))
            /\ typed[i] \in TableClasses(kind)

\* C2 amended: after a successful parse of kind K, an element whose tag is in K's private
\* table is backed by that table's class, one whose tag is only in the shared table by the
\* shared table's class, and one whose tag is in neither (a text element such as
\* common:UUID) by the plain element class: it does not make the parse fail.
C2_ElementsTypedByLookupOrPlain ==
    pc = "parsed" =>
        /\ Len(typed) = Len(doc)
        /\ \A i \in 1..Len(doc) :
              LET name == LocalName(doc[i].tag)
              IN typed[i] =
                    IF name \in DOMAIN LookupMap(kind) THEN LookupMap(kind)[name]
                    ELSE IF name \in DOMAIN COMMON_LOOK_UP THEN COMMON_LOOK_UP[name]
                    ELSE GenericElement

\* C2 witness: a parsed document whose dataSetInformation has a common:UUID child; the
\* first is typed from the private table, the second is a plain element.
C2_Witness ==
    /\ pc = "parsed"
    /\ \E i, j \in 1..Len(doc) :
          /\ doc[i].tag = <<"", "dataSetInformation">>
          /\ typed[i] = LookupMap(kind)["dataSetInformation"]
          /\ doc[j].tag = <<"common", "UUID">>
          /\ doc[j].parent = i
          /\ typed[j] = GenericElement

\* C3: a name that is in a kind's private table and in the shared table resolves, under
\* that kind, to the private table's class and not to the shared table's.
C3_PrivateTableWins ==
    pc = "lookup" =>
        \A K \in DOMAIN resolved \cap Kinds :
            (lookupName \in DOMAIN LookupMap(K) /\ lookupName \in DOMAIN COMMON_LOOK_UP) =>
                /\ resolved[K] = LookupMap(K)[lookupName]
                /\ resolved[K] # COMMON_LOOK_UP[lookupName]

\* C3 witness: "compliance" and "complianceDeclarations", in both tables for Process,
\* have been resolved under Process.
C3_Witness ==
    /\ pc = "lookup"
    /\ lookupName \in {"compliance", "complianceDeclarations"}
    /\ lookupName \in DOMAIN ProcessLookupMap \cap DOMAIN COMMON_LOOK_UP
    /\ "Process" \in DOMAIN resolved
    /\ resolved["Process"] \in {"process_dataset.Compliance", "process_dataset.ComplianceDeclarations"}

\* C4: a name of the shared table resolves, under every two kinds whose private tables
\* lack it, to one and the same class: the shared table's entry.
C4_SharedNamesResolveAlike ==
    (pc = "lookup" /\ lookupName \in DOMAIN COMMON_LOOK_UP) =>
        \A K1, K2 \in DOMAIN resolved \cap Kinds :
            (lookupName \notin DOMAIN LookupMap(K1) /\ lookupName \notin DOMAIN LookupMap(K2)) =>
                /\ resolved[K1] = resolved[K2]
                /\ resolved[K1] = COMMON_LOOK_UP[lookupName]

\* C4 witness: a referenceTo* name mapped to GlobalReference has been resolved under all
\* six kinds, each giving GlobalReference.
C4_Witness ==
    /\ pc = "lookup"
    /\ lookupName = "referenceToDataSource"
    /\ Kinds \subseteq DOMAIN resolved
    /\ \A K \in Kinds : resolved[K] = "common.GlobalReference"

\* The root tag of kind K's documents: the shared table's key for K's root class.
RootTag(K) == CHOOSE n \in DOMAIN COMMON_LOOK_UP : COMMON_LOOK_UP[n] = RootClass(K)

\* What the tables of kind K give a name: the private entry, else the shared entry,
\* else None.
TableClass(K, name) ==
    IF name \in DOMAIN LookupMap(K) THEN LookupMap(K)[name]
    ELSE IF name \in DOMAIN COMMON_LOOK_UP THEN COMMON_LOOK_UP[name]
    ELSE None

RootTypedByTag(K, tag, cls) ==
    /\ cls = IF TableClass(K, LocalName(tag)) # None
             THEN TableClass(K, LocalName(tag)) ELSE GenericElement
    /\ IsInstance(cls, RootClass(K)) <=> LocalName(tag) = RootTag(K)

ChildFactories == {"get_element", "get_element_list"}

TextFactories ==
    { "create_element_text_process_dataset", "create_element_text_flow_dataset",
      "create_element_text_unit_group_dataset", "create_element_text_contact_dataset",
      "create_attribute_list_process_dataset", "create_attribute_list_flow_dataset",
      "create_attribute_list_flow_property_dataset",
      "create_attribute_list_unit_group_dataset", "create_attribute_list_contact_dataset",
      "create_attribute_list_source_dataset" }

\* The classes reachable from a set of classes through child accessors, the children
\* being typed by kind K's lookup.
RECURSIVE ReachFrom(_, _)
ReachFrom(K, S) ==
    LET step == S \cup {ElementClass(K, a.tag) :
                          a \in {b \in UNION {ClassAccessors[c] : c \in S} :
                                    b.factory \in ChildFactories}}
    IN IF step = S THEN S ELSE ReachFrom(K, step)

\* The classes of kind K's vocabulary: those reachable from K's root class.
VocabularyClasses == [K \in Kinds |-> ReachFrom(K, {RootClass(K)})]

\* The element names kind K's vocabulary names by a child accessor, and by a text accessor.
ChildNames ==
    [K \in Kinds |->
        {LocalName(a.tag) : a \in {b \in UNION {ClassAccessors[c] : c \in VocabularyClasses[K]} :
                                      b.factory \in ChildFactories}}]

TextNames ==
    [K \in Kinds |->
        {LocalName(a.tag) : a \in {b \in UNION {ClassAccessors[c] : c \in VocabularyClasses[K]} :
                                      b.factory \in TextFactories}}]

\* C6 as stated: every element name of kind K's vocabulary (named by a child accessor, a
\* text accessor or a repeated accessor reachable from K's root class) resolves under K
\* to a wrapper class, never to not-found and never to an error.
C6_VocabularyResolvesToClass ==
    pc = "lookup" =>
        \A K \in DOMAIN resolved \cap Kinds :
            lookupName \in ChildNames[K] \cup TextNames[K] => resolved[K] \in ClassIds

\* C6 amended: every element name that a child accessor (single or repeated) reachable
\* from K's root class names resolves under K to a wrapper class; an element name that
\* only text accessors name and no table of K has (referenceYear and baseName of Process,
\* UUID of Contact) resolves to None, without an error: text elements have no wrapper class.
C6_ChildNamesResolveTextNamesDoNot ==
    pc = "lookup" =>
        \A K \in DOMAIN resolved \cap Kinds :
            /\ lookupName \in ChildNames[K] => resolved[K] \in ClassIds
            /\ (lookupName \in TextNames[K] /\ ~Known(K, lookupName)) => resolved[K] = None
            /\ resolved[K] # LookupError

\* C6 witness: "baseName", which the Process vocabulary names by a text accessor only,
\* has been resolved under Process and the lookup returned None; referenceYear is such
\* a name of the Process vocabulary too, UUID of the Contact vocabulary, and
\* processInformation is a child name of the Process vocabulary.
C6_Witness ==
    /\ pc = "lookup"
    /\ lookupName = "baseName"
    /\ "Process" \in DOMAIN resolved
    /\ resolved["Process"] = None
    /\ {"referenceYear", "baseName"} \subseteq TextNames["Process"] \ ChildNames["Process"]
    /\ ~Known("Process", "referenceYear") /\ ~Known("Process", "baseName")
    /\ "UUID" \in TextNames["Contact"] /\ ~Known("Contact", "UUID")
    /\ "processInformation" \in ChildNames["Process"]

\* C7: "classificationInformation" resolves to FlowCategoryInformation under the Flow
\* lookup and to ClassificationInformation under each of the other five; so the element
\* dataSetInformation.classificationInformation returns from a parsed document is a
\* FlowCategoryInformation for Flow and a ClassificationInformation for the other kinds.
C7_ClassificationInformationByKind ==
    LET expected(K) == IF K = "Flow" THEN "common.FlowCategoryInformation"
                       ELSE "common.ClassificationInformation"
    IN /\ (pc = "lookup" /\ lookupName = "classificationInformation") =>
              \A K \in DOMAIN resolved \cap Kinds : resolved[K] = expected(K)
       /\ (/\ pc = "parsed"
           /\ view # 0
           /\ lastAccess[2] = "classificationInformation"
           /\ lastAccess[1] = LookupMap(kind)["dataSetInformation"]) =>
              typed[view] = expected(kind)

\* C7 witness: dataSetInformation.classificationInformation has been read from a parsed
\* Flow document and returned a FlowCategoryInformation.
C7_Witness ==
    /\ pc = "parsed"
    /\ kind = "Flow"
    /\ view # 0
    /\ lastAccess = <<"flow_dataset.DataSetInformation", "classificationInformation">>
    /\ doc[view].tag = <<"", "classificationInformation">>
    /\ typed[doc[view].parent] = "flow_dataset.DataSetInformation"
    /\ typed[view] = "common.FlowCategoryInformation"

\* The attribute names of the accessors an instance of class c has.
AttrNames(c) == {a.attr : a \in ClassAccessors[c]}

\* The accessors of ComplianceGroup, and the five compliance ratings of the Process
\* Compliance class.
ComplianceGroupAttrs == {"approvalOfOverallCompliance", "referenceToComplianceSystem"}

ComplianceRatingAttrs ==
    { "nomenclatureCompliance", "methodologicalCompliance", "reviewCompliance",
      "documentationCompliance", "qualityCompliance" }

\* C8: "compliance" resolves under Process to the Process Compliance class, whose
\* accessors are the five compliance ratings and the ComplianceGroup accessors; under
\* each of the other five kinds it resolves to the common Compliance class, whose
\* accessors are the ComplianceGroup accessors only.
C8_ComplianceByKind ==
    (pc = "lookup" /\ lookupName = "compliance") =>
        /\ AttrNames("common.ComplianceGroup") = ComplianceGroupAttrs
        /\ \A K \in DOMAIN resolved \cap Kinds :
              IF K = "Process"
              THEN /\ resolved[K] = "process_dataset.Compliance"
                   /\ AttrNames(resolved[K]) = ComplianceRatingAttrs \cup ComplianceGroupAttrs
              ELSE /\ resolved[K] = "common.Compliance"
                   /\ AttrNames(resolved[K]) = ComplianceGroupAttrs

\* C8 witness: "compliance" has been resolved under all six kinds.
C8_Witness ==
    /\ pc = "lookup"
    /\ lookupName = "compliance"
    /\ Kinds \subseteq DOMAIN resolved
    /\ resolved["Process"] = "process_dataset.Compliance"
    /\ resolved["Source"] = "common.Compliance"

\* The module that defines kind K's vocabulary.
Module(K) ==
    CASE K = "Process"      -> "process_dataset"
      [] K = "Flow"         -> "flow_dataset"
      [] K = "FlowProperty" -> "flow_property_dataset"
      [] K = "UnitGroup"    -> "unit_group_dataset"
      [] K = "Contact"      -> "contact_dataset"
      [] K = "Source"       -> "source_dataset"

\* The classes kind K's module defines.
ModuleClasses(K) ==
    CASE K = "Process"      -> ProcessClasses
      [] K = "Flow"         -> FlowClasses
      [] K = "FlowProperty" -> FlowPropertyClasses
      [] K = "UnitGroup"    -> UnitGroupClasses
      [] K = "Contact"      -> ContactClasses
      [] K = "Source"       -> SourceClasses

\* The four tags every kind types with a class of its own, and the class name of each.
PerKindTags ==
    [ administrativeInformation |-> "AdministrativeInformation",
      dataEntryBy               |-> "DataEntryBy",
      dataSetInformation        |-> "DataSetInformation",
      publicationAndOwnership   |-> "PublicationAndOwnership" ]

\* C9: for each of administrativeInformation, dataEntryBy, dataSetInformation and
\* publicationAndOwnership, the six lookups return pairwise distinct classes, each the
\* class of that name defined in the kind's own vocabulary module.
C9_PerKindClassesDistinct ==
    (pc = "lookup" /\ lookupName \in DOMAIN PerKindTags) =>
        /\ \A K \in DOMAIN resolved \cap Kinds :
              /\ resolved[K] = Module(K) \o "." \o PerKindTags[lookupName]
              /\ resolved[K] \in {c.id : c \in ModuleClasses(K)}
        /\ \A K1, K2 \in DOMAIN resolved \cap Kinds :
              K1 # K2 => resolved[K1] # resolved[K2]

\* C9 witness: "dataEntryBy" has been resolved under all six kinds, giving six classes.
C9_Witness ==
    /\ pc = "lookup"
    /\ lookupName = "dataEntryBy"
    /\ Kinds \subseteq DOMAIN resolved
    /\ Cardinality({resolved[K] : K \in Kinds}) = 6

\* The partial classes that only collect accessors for the classes deriving from them.
GroupClasses ==
    { "common.ValidationGroup1", "common.ValidationGroup3", "common.ComplianceGroup",
      "common.DataEntryByGroup1", "common.DataEntryByGroup2",
      "common.PublicationAndOwnershipGroup1", "common.PublicationAndOwnershipGroup2",
      "common.PublicationAndOwnershipGroup3" }

\* C10: no Group partial class is the value of an entry of a private table or of the
\* shared table: no name resolves to a Group class under any resolver, and no element
\* of a parsed document is backed by one.
C10_NoGroupClassResolvable ==
    /\ \A K \in Kinds : \A n \in DOMAIN LookupMap(K) : LookupMap(K)[n] \notin GroupClasses
    /\ \A n \in DOMAIN COMMON_LOOK_UP : COMMON_LOOK_UP[n] \notin GroupClasses
    /\ pc = "lookup" => \A R \in DOMAIN resolved : resolved[R] \notin GroupClasses
    /\ pc = "parsed" => \A i \in 1..Len(typed) : typed[i] \notin GroupClasses
    /\ pc = "batch" => \A i \in 1..Len(results) : results[i].cls \notin GroupClasses

\* C10 witness: "compliance" has been resolved by all seven resolvers; each returned a
\* class deriving from ComplianceGroup, none the group itself.
C10_Witness ==
    /\ pc = "lookup"
    /\ lookupName = "compliance"
    /\ DOMAIN resolved = Resolvers
    /\ GroupClasses \subseteq ClassIds
    /\ \A R \in Resolvers :
          /\ IsInstance(resolved[R], "common.ComplianceGroup")
          /\ resolved[R] # "common.ComplianceGroup"

C12_SectionUpdatesStaticDefaults ==
    config # NoConfig =>
        \A T \in DOMAIN config[1].file.sections :
            \A attr \in DOMAIN config[1].file.sections[T] :
                /\ T \in DOMAIN defaults["STATIC_DEFAULTS"].value
                /\ attr \in DOMAIN defaults["STATIC_DEFAULTS"].value[T]
                /\ defaults["STATIC_DEFAULTS"].value[T][attr]
                      = config[1].file.sections[T][attr]

\* C13: after config_defaults has loaded a file, every validate and parse call (file,
\* directory and zip variants) of a kind whose schema-path key the [parameters] section
\* sets hands the engine the path the file gives, and every call of another kind hands
\* it the path that kind had before the load.
C13_ConfiguredSchemaPathIsUsed ==
    (config # NoConfig /\ call.op # None) =>
        LET f   == config[1].file
            key == SchemaKey(kind)
        IN call.schema = IF f.hasParameters /\ key \in DOMAIN f.parameters
                         THEN f.parameters[key]
                         ELSE config[1].before[kind]

\* C13 witness: a file setting SCHEMA_PROCESS_DATASET was loaded and a Process archive
\* was then validated against the path the file gave.
C13_Witness ==
    /\ config # NoConfig
    /\ config[1].file.hasParameters
    /\ "SCHEMA_PROCESS_DATASET" \in DOMAIN config[1].file.parameters
    /\ config[1].before["Process"] = BundledSchema("Process")
    /\ pc = "validated"
    /\ kind = "Process"
    /\ call.op = "validate_zip_file"
    /\ call.schema = config[1].file.parameters["SCHEMA_PROCESS_DATASET"]
    /\ call.schema # BundledSchema("Process")

\* C14: save_ilcd_file with fill_defaults=True writes the default of the bundled table
\* into every element that lacks it: a ProcessDataSet root without metaDataOnly is
\* written with metaDataOnly="false", a Classification or FlowCategorization element
\* without name is written with name="ILCD".
C14_FillWritesEveryDefault ==
    (pc = "saved" /\ saved[1].fill_defaults) =>
        \A i \in DOMAIN typed :
            LET before  == saved[1].before[i]
                written == saved[1].content[i].attrs
            IN /\ (typed[i] = "process_dataset.ProcessDataSet"
                     /\ "metaDataOnly" \notin DOMAIN before)
                    => ("metaDataOnly" \in DOMAIN written
                          /\ written["metaDataOnly"] = "false")
               /\ (typed[i] \in {"common.Classification", "common.FlowCategorization"}
                     /\ "name" \notin DOMAIN before)
                    => ("name" \in DOMAIN written /\ written["name"] = "ILCD")

ConfigurationKeys == {SchemaKey(K) : K \in Kinds} \cup {"STATIC_DEFAULTS", "DYNAMIC_DEFAULTS"}

\* C25: config_defaults called with a path that names no file (or a file that cannot
\* be read) returns normally and leaves the six schema paths, STATIC_DEFAULTS and
\* DYNAMIC_DEFAULTS as they were.
C25_MissingFileChangesNothing ==
    [][(config' # NoConfig /\ ~config'[1].file.exists) =>
          /\ pc' = pc
          /\ \A a \in ConfigurationKeys : defaults'[a] = defaults[a]]_vars

\* C25 witness: a file had set the Process schema path, then config_defaults was
\* called with a path that names no file, and the path the file had set is in place.
C25_Witness ==
    /\ config # NoConfig
    /\ ~config[1].file.exists
    /\ config[1].before["Process"] = "custom/ILCD.xsd"
    /\ SchemaPath("Process") = "custom/ILCD.xsd"
    /\ SchemaPath("Flow") = BundledSchema("Flow")
    /\ defaults["DYNAMIC_DEFAULTS"] = Dict(DYNAMIC_DEFAULTS)

\* C29: whatever files config_defaults has loaded, STATIC_DEFAULTS and DYNAMIC_DEFAULTS
\* are mappings and each of the six schema paths is a string.
C29_ConfigurationKeepsItsShape ==
    /\ defaults["STATIC_DEFAULTS"].type = "dict"
    /\ defaults["DYNAMIC_DEFAULTS"].type = "dict"
    /\ \A K \in Kinds : defaults[SchemaKey(K)].type = "str"

\* C30: a load merges: a schema path the file loaded does not set keeps its value, and
\* every (element type, attribute) entry the file does not mention, bundled in
\* STATIC_DEFAULTS or stored by an earlier load, keeps the value it had before the load.
C30_LoadsMerge ==
    [][config' # NoConfig =>
          LET f2 == config'[1].file
              Mentioned(T, attr) ==
                  T \in DOMAIN f2.sections /\ attr \in DOMAIN f2.sections[T]
              Kept(before, after) ==
                  /\ after.type = "dict"
                  /\ \A T \in DOMAIN before.value :
                        \A attr \in DOMAIN before.value[T] :
                            ~Mentioned(T, attr) =>
                                /\ T \in DOMAIN after.value
                                /\ attr \in DOMAIN after.value[T]
                                /\ after.value[T][attr] = before.value[T][attr]
          IN /\ \A K \in Kinds :
                   SchemaKey(K) \notin DOMAIN f2.parameters =>
                       defaults'[SchemaKey(K)] = defaults[SchemaKey(K)]
             /\ defaults["STATIC_DEFAULTS"].type = "dict" =>
                   Kept(defaults["STATIC_DEFAULTS"], defaults'["STATIC_DEFAULTS"])
             /\ "static_defaults" \in DOMAIN defaults =>
                   Kept(defaults["static_defaults"], defaults'["static_defaults"])]_vars

\* C21: no parse, validate, save or lookup changes the six schema paths or the two
\* defaults tables; a step that changes one of them is a config_defaults call.
C21_OnlyConfigDefaultsChangesConfiguration ==
    [][ConfigDefaults \/ \A a \in ConfigurationKeys : defaults'[a] = defaults[a]]_vars

\* C21 witness: after a load that set the Process schema path, a document was parsed
\* and saved with fill_defaults, the fill wrote an attribute, and the path and the
\* tables are what they were after the load.
C21_Witness ==
    /\ pc = "saved"
    /\ saved[1].fill_defaults
    /\ attrs # saved[1].before
    /\ config # NoConfig
    /\ SchemaPath("Process") = "custom/ILCD.xsd"
    /\ SchemaPath("Flow") = BundledSchema("Flow")
    /\ defaults["STATIC_DEFAULTS"] = Dict(STATIC_DEFAULTS)
    /\ defaults["DYNAMIC_DEFAULTS"] = Dict(DYNAMIC_DEFAULTS)

\* C24: every name the test suite imports from the package top level (the six root
\* classes, the validate and parse operations of the six kinds, save_ilcd_file) is
\* defined there: the import binds the name.
C24_TestImportsAreExported ==
    (pc = "imported" /\ results[1].name \in TestImports) => results[1].imported

\* C26: each validate and parse operation (file, directory, zip) hands the engine the
\* schema path Defaults holds for its own kind when it is called, and no other kind's;
\* each parse operation types the elements with the lookup of its own kind.
C26_OperationsUseTheirOwnKind ==
    call.op # None =>
        /\ call.schema = defaults[SchemaKey(kind)].value
        /\ \A K \in Kinds \ {kind} : call.schema # defaults[SchemaKey(K)].value
        /\ pc = "parsed" =>
              \A i \in DOMAIN doc :
                  LET cls == Resolver(kind, LocalName(doc[i].tag))
                  IN typed[i] = IF cls # None THEN cls ELSE GenericElement
        /\ pc = "batch" =>
              \A j \in DOMAIN results :
                  LET cls == Resolver(kind, LocalName(results[j].tag))
                  IN results[j].cls = IF cls # None THEN cls ELSE GenericElement

\* C26 witness: after a load that set the Process schema path, a Source file was parsed
\* against the bundled Source schema and its dataSetInformation element is the Source
\* vocabulary's DataSetInformation.
C26_Witness ==
    /\ pc = "parsed"
    /\ kind = "Source"
    /\ call.op = "parse_file"
    /\ SchemaPath("Process") = "custom/ILCD.xsd"
    /\ call.schema = BundledSchema("Source")
    /\ doc[2].tag = <<"", "dataSetInformation">>
    /\ typed[2] = "source_dataset.DataSetInformation"

\* C27: the schema an accessor is bound to is the one of the factory that produced it,
\* fixed when its class is defined: an accessor declared in a kind's module is bound to
\* that kind's schema; an accessor declared in common.py, also when a class of another
\* kind inherits it from a Group class, is bound to the Process schema; and no load of
\* a configuration file changes the binding.
C27_AccessorSchemaIsFixed ==
    /\ \A K \in Kinds :
          \A a \in ModuleAccessors(K) \cap SchemaAccessors :
              BoundSchema(a) = BundledSchema(K)
    /\ \A a \in CommonAccessors \cap SchemaAccessors :
          BoundSchema(a) = BundledSchema("Process")
    /\ \A K \in Kinds :
          \A c \in ModuleClasses(K) :
              \A a \in ClassAccessors[c.id] \cap CommonAccessors \cap SchemaAccessors :
                  BoundSchema(a) = BundledSchema("Process")

\* C27 witness: files have set the Process and the Flow schema paths, and timeStamp,
\* which the Flow DataEntryBy inherits from common.py's DataEntryByGroup1, is bound to
\* the bundled Process schema, neither the Flow schema nor the path now configured.
C27_Witness ==
    /\ config # NoConfig
    /\ SchemaPath("Process") = "custom/ILCD.xsd"
    /\ SchemaPath("Flow") = "other/ILCD.xsd"
    /\ \E a \in ClassAccessors["flow_dataset.DataEntryBy"] :
          /\ a.cls = "common.DataEntryByGroup1"
          /\ a.attr = "timeStamp"
          /\ BoundSchema(a) = BundledSchema("Process")
          /\ BoundSchema(a) # SchemaPath("Process")

\* The single and repeated child accessors of kind K's vocabulary: those of the classes
\* reachable from K's root class.
VocabularyChildAccessors ==
    [K \in Kinds |->
        {a \in UNION {ClassAccessors[c] : c \in VocabularyClasses[K]} :
            a.factory \in ChildFactories}]

\* C28: for every single or repeated child accessor of a class reachable from kind K's
\* root, the class K's lookup returns for the accessor's tag is the class the accessor
\* declares as its return type, or a subclass of it.
C28_ResolvedClassIsDeclaredType ==
    pc = "lookup" =>
        \A K \in DOMAIN resolved \cap Kinds :
            \A a \in VocabularyChildAccessors[K] :
                LocalName(a.tag) = lookupName =>
                    /\ resolved[K] # None
                    /\ IsInstance(resolved[K], a.type)

====
